---- MODULE Spec2Model ----
(***************************************************************************)
(* A model of the serde_discord crate: the decoders of inbound             *)
(* interactions (Interaction, CommandInteractionData, MultiTypeValue) and  *)
(* the validating builders of the command registration schema              *)
(* (CommandOptionBuilder, CommandBuilder).                                 *)
(*                                                                         *)
(* Every operation of the crate is a pure, synchronous transformation, so  *)
(* the state machine runs one operation at a time: `builder` is the        *)
(* builder under construction, `call` the last finished operation with     *)
(* the argument it consumed, `result` what that operation returned.        *)
(*                                                                         *)
(* Values are records tagged by their field name ([Ok |-> v], [u64 |-> n]) *)
(* so that values of different shapes stay comparable.                     *)
(***************************************************************************)
EXTENDS Integers, Sequences, FiniteSets, TLC

VARIABLES builder, call, result

vars == <<builder, call, result>>

(***************************************************************************)
(* Bounds of the model.                                                    *)
(***************************************************************************)
\* How far around each boundary (0, 5, 255, 6000, 2^63) the inputs range.
Slack == 1
\* How many optional inputs (fields set and list items given) one builder may
\* hold at a time.
MaxOptionalSet == 2

(***************************************************************************)
(* Rust's Option and Result.                                               *)
(***************************************************************************)
None == [none |-> TRUE]
Some(v) == [some |-> v]
IsSome(o) == "some" \in DOMAIN o
IsNone(o) == "none" \in DOMAIN o

Ok(v) == [Ok |-> v]
Err(e) == [Err |-> e]
IsOk(r) == "Ok" \in DOMAIN r
IsErr(r) == "Err" \in DOMAIN r

(***************************************************************************)
(* 64-bit integers, kept at their width as four 16-bit limbs, most         *)
(* significant first.  An i64 is its two's complement bit pattern, so the  *)
(* cast `value as i64` of a u64 keeps the limbs.                           *)
(***************************************************************************)
LimbBase == 2 ^ 16

Limbs64 == 1..4

\* The u64 of a small natural n < 2^16.
U64(n) == <<0, 0, 0, n>>

\* a <= b on u64 values.
LeU64(a, b) ==
    \/ a = b
    \/ \E i \in Limbs64 : a[i] < b[i] /\ \A j \in 1..(i - 1) : a[j] = b[j]

\* v - d for a u64 v and a small d, no borrow beyond the second limb needed.
RECURSIVE SubSmall(_, _)
SubSmall(v, d) ==
    IF d = 0 THEN v
    ELSE LET i == CHOOSE k \in Limbs64 : v[k] > 0 /\ \A j \in (k + 1)..4 : v[j] = 0
         IN SubSmall([j \in Limbs64 |-> IF j < i THEN v[j]
                                        ELSE IF j = i THEN v[i] - 1
                                        ELSE LimbBase - 1], d - 1)

\* i64::MAX as u64 = 2^63 - 1.
I64_MAX == <<(2 ^ 15) - 1, LimbBase - 1, LimbBase - 1, LimbBase - 1>>
\* 2^63, the least u64 above i64::MAX
TwoTo63 == <<2 ^ 15, 0, 0, 0>>
U64_MAX == <<LimbBase - 1, LimbBase - 1, LimbBase - 1, LimbBase - 1>>
\* The i64 -1.
MinusOne == U64_MAX

U8_MAX == 255

(***************************************************************************)
(* f64.  A float is (-1)^neg * (mag + half/2), mag a five-limb natural     *)
(* (2^64 is an f64 that no u64 holds).                                     *)
(***************************************************************************)
F64(neg, mag, half) == [neg |-> neg, mag |-> mag, half |-> half]

\* The number of bits of a limb: 0 for 0, 16 for 2^15..2^16-1.
BitLen(l) == IF l = 0 THEN 0 ELSE CHOOSE k \in 1..16 : 2 ^ (k - 1) <= l /\ l < 2 ^ k

\* `value as f64` for a u64: round to nearest, ties to even, at 53 significant
\* bits.  The unit in the last place is at most 2^11, within the low limb.
U64AsF64(v) ==
    LET ulp  == IF BitLen(v[1]) <= 5 THEN 1 ELSE 2 ^ (BitLen(v[1]) - 5)
        q    == v[4] \div ulp
        r    == v[4] % ulp
        up   == ulp > 1 /\ (2 * r > ulp \/ (2 * r = ulp /\ q % 2 = 1))
        lo   == (q + (IF up THEN 1 ELSE 0)) * ulp
        c4   == IF lo = LimbBase THEN 1 ELSE 0
        l3   == v[3] + c4
        c3   == IF l3 = LimbBase THEN 1 ELSE 0
        l2   == v[2] + c3
        c2   == IF l2 = LimbBase THEN 1 ELSE 0
        l1   == v[1] + c2
        c1   == IF l1 = LimbBase THEN 1 ELSE 0
    IN F64(FALSE, <<c1, l1 % LimbBase, l2 % LimbBase, l3 % LimbBase, lo % LimbBase>>, FALSE)

(***************************************************************************)
(* JSON values as serde_json::Value holds them.  A number is a PosInt      *)
(* (u64), a NegInt (a negative i64) or a Float.                            *)
(***************************************************************************)
JNull == [null |-> TRUE]
JBool(b) == [bool |-> b]
JPos(v) == [u64 |-> v]
JNeg(v) == [i64 |-> v]
JFloat(f) == [f64 |-> f]
JStr(s) == [str |-> s]
JArr(a) == [arr |-> a]
JObj(o) == [obj |-> o]

\* serde's name of the shape of a value (de::Unexpected).
Unexpected(j) ==
    IF "null" \in DOMAIN j THEN "unit"
    ELSE IF "bool" \in DOMAIN j THEN "bool"
    ELSE IF "u64" \in DOMAIN j \/ "i64" \in DOMAIN j THEN "integer"
    ELSE IF "f64" \in DOMAIN j THEN "float"
    ELSE IF "str" \in DOMAIN j THEN "string"
    ELSE IF "arr" \in DOMAIN j THEN "sequence"
    ELSE "map"

\* de::Error::invalid_type(unexpected, expected)
InvalidType(j, expected) == [invalid_type |-> <<Unexpected(j), expected>>]

(***************************************************************************)
(* types/multi_type_value.rs: MultiTypeValue and its visitor.              *)
(***************************************************************************)
\* MultiTypeValueVisitor::expecting
MultiTypeValueExpecting == "a string, integer, double, or boolean value"

visit_str(value) == Ok([String |-> value])

visit_i64(value) == Ok([Integer |-> value])

\* visit_u64 with the bound itself sent to Double (< for <=).
visit_u64_strict(value) ==
    IF value # I64_MAX /\ LeU64(value, I64_MAX)
    THEN Ok([Integer |-> value])
    ELSE Ok([Double |-> U64AsF64(value)])

visit_u64(value) ==
    IF LeU64(value, I64_MAX)
    THEN Ok([Integer |-> value])
    ELSE Ok([Double |-> U64AsF64(value)])

visit_f64(value) == Ok([Double |-> value])

visit_bool(value) == Ok([Boolean |-> value])

\* The deserialize with a visit_unit that takes null for the empty string.
MultiTypeValueDeserialize_unit(j) ==
    IF "str" \in DOMAIN j THEN visit_str(j.str)
    ELSE IF "bool" \in DOMAIN j THEN visit_bool(j.bool)
    ELSE IF "u64" \in DOMAIN j THEN visit_u64(j.u64)
    ELSE IF "i64" \in DOMAIN j THEN visit_i64(j.i64)
    ELSE IF "f64" \in DOMAIN j THEN visit_f64(j.f64)
    ELSE IF "null" \in DOMAIN j THEN visit_str("")
    ELSE Err(InvalidType(j, MultiTypeValueExpecting))

\* deserializer.deserialize_any(MultiTypeValueVisitor): the deserializer calls
\* the visitor method of the input's shape; the visitor defines none for a
\* sequence, a map or a unit, and serde's default answers invalid_type.
MultiTypeValueDeserialize(j) ==
    IF "str" \in DOMAIN j THEN visit_str(j.str)
    ELSE IF "bool" \in DOMAIN j THEN visit_bool(j.bool)
    ELSE IF "u64" \in DOMAIN j THEN visit_u64(j.u64)
    ELSE IF "i64" \in DOMAIN j THEN visit_i64(j.i64)
    ELSE IF "f64" \in DOMAIN j THEN visit_f64(j.f64)
    ELSE Err(InvalidType(j, MultiTypeValueExpecting))

(***************************************************************************)
(* What serde derives for the field types of the decoded structs.          *)
(***************************************************************************)
\* The u8 read as a wider integer and cast (`as u8`): the low byte is kept.
DeserializeU8_truncating(j) ==
    IF "u64" \in DOMAIN j THEN Ok(j.u64[4] % (U8_MAX + 1))
    ELSE IF "i64" \in DOMAIN j THEN Err([invalid_value |-> j])
    ELSE Err(InvalidType(j, "u8"))

\* u8: an unsigned integer up to 255; any other integer is an invalid value.
DeserializeU8(j) ==
    IF "u64" \in DOMAIN j
    THEN IF LeU64(j.u64, U64(U8_MAX)) THEN Ok(j.u64[4]) ELSE Err([invalid_value |-> j])
    ELSE IF "i64" \in DOMAIN j THEN Err([invalid_value |-> j])
    ELSE Err(InvalidType(j, "u8"))

\* String
DeserializeString(j) ==
    IF "str" \in DOMAIN j THEN Ok(j.str) ELSE Err(InvalidType(j, "a string"))

\* Option<T> of a value that is not null: Some of what T decodes, or T's error.
SomeOf(r) == IF IsOk(r) THEN Ok(Some(r.Ok)) ELSE r

\* Option<bool>: null is None.
DeserializeOptionBool(j) ==
    IF "null" \in DOMAIN j THEN Ok(None)
    ELSE IF "bool" \in DOMAIN j THEN Ok(Some(j.bool))
    ELSE Err(InvalidType(j, "a boolean"))

\* Option<MultiTypeValue>: null is None.
DeserializeOptionMultiTypeValue(j) ==
    IF "null" \in DOMAIN j THEN Ok(None) ELSE SomeOf(MultiTypeValueDeserialize(j))

\* types/command_option.rs: the discriminants of CommandOptionKind.
CommandOptionKind == 1..11

\* types/command.rs: the discriminants of CommandKind.
CommandKind == 1..4

\* The match of Deserialize_repr on the u8 it read: one of the discriminants.
ReprOf(r, discriminants) ==
    IF IsErr(r) THEN r
    ELSE IF r.Ok \in discriminants THEN r
    ELSE Err([invalid_repr |-> r.Ok])

\* Deserialize_repr of CommandOptionKind: a u8 that is one of the discriminants.
DeserializeCommandOptionKind(j) == ReprOf(DeserializeU8(j), CommandOptionKind)

\* Deserialize_repr of CommandKind.
DeserializeCommandKind(j) == ReprOf(DeserializeU8(j), CommandKind)

\* Snowflake = u64
DeserializeSnowflake(j) ==
    IF "u64" \in DOMAIN j THEN Ok(j.u64)
    ELSE IF "i64" \in DOMAIN j THEN Err([invalid_value |-> j])
    ELSE Err(InvalidType(j, "u64"))

\* Option<Snowflake>
DeserializeOptionSnowflake(j) ==
    IF "null" \in DOMAIN j THEN Ok(None) ELSE SomeOf(DeserializeSnowflake(j))

(***************************************************************************)
(* The Deserialize that serde derives for a struct: a map is read key by   *)
(* key (serde_json::Value keeps its keys sorted), unknown keys are         *)
(* ignored, an absent Option field is None and an absent required field is *)
(* a missing_field error raised after the last key; a sequence gives the   *)
(* fields by position and must hold exactly as many elements as the struct *)
(* has fields.                                                             *)
(***************************************************************************)
\* The first error of a sequence of results, or Ok(TRUE) when none is one.
FirstErr(rs) ==
    IF \E i \in 1..Len(rs) : IsErr(rs[i])
    THEN rs[CHOOSE i \in 1..Len(rs) : IsErr(rs[i]) /\ \A j \in 1..(i - 1) : IsOk(rs[j])]
    ELSE Ok(TRUE)

\* The error for a sequence shorter or longer than the struct.
InvalidLength(a) == Err([invalid_length |-> Len(a)])

MissingField(k) == Err([missing_field |-> k])

\* A result that is no error, for a key the map does not hold.
Skipped == Ok(TRUE)

(***************************************************************************)
(* interaction/data/command.rs: CommandInteractionData, a node of the      *)
(* decoded option tree.                                                    *)
(***************************************************************************)
RECURSIVE CommandInteractionDataDeserialize(_)
RECURSIVE DeserializeOptionVecNode(_)

\* The struct, from its five decoded fields (each a result).
CommandInteractionDataStruct(name, kind, value, options, focused) ==
    Ok([name |-> name.Ok, kind |-> kind.Ok, value |-> value.Ok,
        options |-> options.Ok, focused |-> focused.Ok])

\* visit_map, given the result of each field (for an absent key: None, or the
\* missing_field error): the errors of the keys the map holds come first.
CommandInteractionDataVisitMap(o, name, kind, value, options, focused) ==
    LET inKeys  == FirstErr(<<focused,
                              IF "name" \in DOMAIN o THEN name ELSE Skipped,
                              options,
                              IF "type" \in DOMAIN o THEN kind ELSE Skipped,
                              value>>)
        missing == FirstErr(<<name, kind>>)
    IN IF IsErr(inKeys) THEN inKeys
       ELSE IF IsErr(missing) THEN missing
       ELSE CommandInteractionDataStruct(name, kind, value, options, focused)

\* visit_seq, given the result of each element.
CommandInteractionDataVisitSeq(a, name, kind, value, options, focused) ==
    LET inOrder == FirstErr(<<name, kind, value, options, focused>>)
    IN IF IsErr(inOrder) THEN inOrder
       ELSE IF Len(a) > 5 THEN InvalidLength(a)
       ELSE CommandInteractionDataStruct(name, kind, value, options, focused)

CommandInteractionDataDeserialize(j) ==
    IF "obj" \in DOMAIN j
    THEN CommandInteractionDataVisitMap(j.obj,
            IF "name" \in DOMAIN j.obj THEN DeserializeString(j.obj.name)
                                       ELSE MissingField("name"),
            IF "type" \in DOMAIN j.obj THEN DeserializeCommandOptionKind(j.obj.type)
                                       ELSE MissingField("type"),
            IF "value" \in DOMAIN j.obj THEN DeserializeOptionMultiTypeValue(j.obj.value)
                                        ELSE Ok(None),
            IF "options" \in DOMAIN j.obj THEN DeserializeOptionVecNode(j.obj.options)
                                          ELSE Ok(None),
            IF "focused" \in DOMAIN j.obj THEN DeserializeOptionBool(j.obj.focused)
                                          ELSE Ok(None))
    ELSE IF "arr" \in DOMAIN j
    THEN CommandInteractionDataVisitSeq(j.arr,
            IF 1 <= Len(j.arr) THEN DeserializeString(j.arr[1]) ELSE InvalidLength(j.arr),
            IF 2 <= Len(j.arr) THEN DeserializeCommandOptionKind(j.arr[2])
                               ELSE InvalidLength(j.arr),
            IF 3 <= Len(j.arr) THEN DeserializeOptionMultiTypeValue(j.arr[3])
                               ELSE InvalidLength(j.arr),
            IF 4 <= Len(j.arr) THEN DeserializeOptionVecNode(j.arr[4])
                               ELSE InvalidLength(j.arr),
            IF 5 <= Len(j.arr) THEN DeserializeOptionBool(j.arr[5])
                               ELSE InvalidLength(j.arr))
    ELSE Err(InvalidType(j, "struct CommandInteractionData"))

\* The Vec of the elements that decode, a failing element being left out.
VecFromResults_skip_failed(rs) ==
    LET RECURSIVE Kept(_)
        Kept(n) == IF n = 0 THEN <<>>
                   ELSE IF IsOk(rs[n]) THEN Append(Kept(n - 1), rs[n].Ok)
                   ELSE Kept(n - 1)
    IN Ok(Some(Kept(Len(rs))))

\* Vec<CommandInteractionData> from the results of its elements: the first
\* failing element fails it.
VecFromResults(rs) ==
    IF IsErr(FirstErr(rs)) THEN FirstErr(rs)
    ELSE Ok(Some([i \in 1..Len(rs) |-> rs[i].Ok]))

\* Option<Vec<CommandInteractionData>>: null is None, an array is decoded
\* element by element, in order.
DeserializeOptionVecNode(j) ==
    IF "null" \in DOMAIN j THEN Ok(None)
    ELSE IF "arr" \in DOMAIN j
    THEN VecFromResults([i \in 1..Len(j.arr) |-> CommandInteractionDataDeserialize(j.arr[i])])
    ELSE Err(InvalidType(j, "a sequence"))

\* interaction/data/command.rs: CommandData, the top-level command payload.
CommandDataStruct(id, name, kind, options, guild_id, target_id) ==
    Ok([id |-> id.Ok, name |-> name.Ok, kind |-> kind.Ok, options |-> options.Ok,
        guild_id |-> guild_id.Ok, target_id |-> target_id.Ok])

CommandDataVisitMap(o, id, name, kind, options, guild_id, target_id) ==
    LET inKeys  == FirstErr(<<guild_id,
                              IF "id" \in DOMAIN o THEN id ELSE Skipped,
                              IF "name" \in DOMAIN o THEN name ELSE Skipped,
                              options, target_id,
                              IF "type" \in DOMAIN o THEN kind ELSE Skipped>>)
        missing == FirstErr(<<id, name, kind>>)
    IN IF IsErr(inKeys) THEN inKeys
       ELSE IF IsErr(missing) THEN missing
       ELSE CommandDataStruct(id, name, kind, options, guild_id, target_id)

CommandDataVisitSeq(a, id, name, kind, options, guild_id, target_id) ==
    LET inOrder == FirstErr(<<id, name, kind, options, guild_id, target_id>>)
    IN IF IsErr(inOrder) THEN inOrder
       ELSE IF Len(a) > 6 THEN InvalidLength(a)
       ELSE CommandDataStruct(id, name, kind, options, guild_id, target_id)

CommandDataDeserialize(j) ==
    IF "obj" \in DOMAIN j
    THEN CommandDataVisitMap(j.obj,
            IF "id" \in DOMAIN j.obj THEN DeserializeSnowflake(j.obj.id)
                                     ELSE MissingField("id"),
            IF "name" \in DOMAIN j.obj THEN DeserializeString(j.obj.name)
                                       ELSE MissingField("name"),
            IF "type" \in DOMAIN j.obj THEN DeserializeCommandKind(j.obj.type)
                                       ELSE MissingField("type"),
            IF "options" \in DOMAIN j.obj THEN DeserializeOptionVecNode(j.obj.options)
                                          ELSE Ok(None),
            IF "guild_id" \in DOMAIN j.obj THEN DeserializeOptionSnowflake(j.obj.guild_id)
                                           ELSE Ok(None),
            IF "target_id" \in DOMAIN j.obj THEN DeserializeOptionSnowflake(j.obj.target_id)
                                            ELSE Ok(None))
    ELSE IF "arr" \in DOMAIN j
    THEN CommandDataVisitSeq(j.arr,
            IF 1 <= Len(j.arr) THEN DeserializeSnowflake(j.arr[1]) ELSE InvalidLength(j.arr),
            IF 2 <= Len(j.arr) THEN DeserializeString(j.arr[2]) ELSE InvalidLength(j.arr),
            IF 3 <= Len(j.arr) THEN DeserializeCommandKind(j.arr[3]) ELSE InvalidLength(j.arr),
            IF 4 <= Len(j.arr) THEN DeserializeOptionVecNode(j.arr[4])
                               ELSE InvalidLength(j.arr),
            IF 5 <= Len(j.arr) THEN DeserializeOptionSnowflake(j.arr[5])
                               ELSE InvalidLength(j.arr),
            IF 6 <= Len(j.arr) THEN DeserializeOptionSnowflake(j.arr[6])
                               ELSE InvalidLength(j.arr))
    ELSE Err(InvalidType(j, "struct CommandData"))

\* opts.iter().find(|x| x.name() == name) returning the last match.
Find_last(opts, name) ==
    IF \E i \in 1..Len(opts) : opts[i].name = name
    THEN Some(opts[CHOOSE i \in 1..Len(opts) :
                      /\ opts[i].name = name
                      /\ \A k \in (i + 1)..Len(opts) : opts[k].name # name])
    ELSE None

\* opts.iter().find(|x| x.name() == name): the first element, in order, whose
\* name is equal to `name`.
Find(opts, name) ==
    IF \E i \in 1..Len(opts) : opts[i].name = name
    THEN Some(opts[CHOOSE i \in 1..Len(opts) :
                      /\ opts[i].name = name
                      /\ \A k \in 1..(i - 1) : opts[k].name # name])
    ELSE None

\* CommandInteractionData::option
CommandInteractionDataOption(self, name) ==
    IF IsSome(self.options) THEN Find(self.options.some, name) ELSE None

\* CommandData::option
CommandDataOption(self, name) ==
    IF IsSome(self.options) THEN Find(self.options.some, name) ELSE None

(***************************************************************************)
(* interaction/interaction.rs: the envelope.                               *)
(***************************************************************************)
\* Option<serde_json::Value>: null is None, any other value is kept as it is.
DeserializeOptionValue(j) == IF "null" \in DOMAIN j THEN Ok(None) ELSE Ok(Some(j))

\* The struct, from its decoded fields; `data` cannot fail.
InteractionRawStruct(a, kind, data) ==
    IF IsErr(kind) THEN kind
    ELSE IF IsErr(data) THEN data
    ELSE IF Len(a) > 2 THEN InvalidLength(a)
    ELSE Ok([kind |-> kind.Ok, data |-> data.Ok])

\* InteractionRaw, derived.
InteractionRawDeserialize(j) ==
    IF "obj" \in DOMAIN j
    THEN InteractionRawStruct(<<>>,
            IF "type" \in DOMAIN j.obj THEN DeserializeU8(j.obj.type)
                                       ELSE MissingField("type"),
            IF "data" \in DOMAIN j.obj THEN DeserializeOptionValue(j.obj.data)
                                       ELSE Ok(None))
    ELSE IF "arr" \in DOMAIN j
    THEN InteractionRawStruct(j.arr,
            IF 1 <= Len(j.arr) THEN DeserializeU8(j.arr[1]) ELSE InvalidLength(j.arr),
            IF 2 <= Len(j.arr) THEN DeserializeOptionValue(j.arr[2])
                               ELSE InvalidLength(j.arr))
    ELSE Err(InvalidType(j, "struct InteractionRaw"))

\* The decimal digits of a natural: u8::to_string.
RECURSIVE to_string(_)
to_string(n) == IF n < 10 THEN <<n>> ELSE Append(to_string(n \div 10), n % 10)

\* de::Error::custom(msg): the message is all the error holds.
Custom(msg) == [custom |-> msg]

\* The message of the error of a payload that did not decode.
MalformedMsg(e) == <<"error deserializing CommandInteractionData: ", e>>

NoDataMsg == <<"error deserializing CommandInteractionData: no data">>

\* de::Error::unknown_variant(variant, expected)
UnknownVariant(variant, expected) == [unknown_variant |-> <<variant, expected>>]

\* The arm of kind 2 with the cause of the failure left out of the message.
CommandFromData_no_cause(data) ==
    IF IsErr(data) THEN Err(Custom(NoDataMsg))
    ELSE Ok([variant |-> "Command", data |-> data.Ok])

\* The arm of kind 2 with the failure of the payload swallowed.
CommandFromData_swallow(data) ==
    IF IsErr(data) THEN Ok([variant |-> "Ping"])
    ELSE Ok([variant |-> "Command", data |-> data.Ok])

\* The arm of kind 2 once the payload is decoded: map_err(..)? and Ok(Command(data)).
CommandFromData(data) ==
    IF IsErr(data) THEN Err(Custom(MalformedMsg(data.Err)))
    ELSE Ok([variant |-> "Command", data |-> data.Ok])

\* The match with the arms of 3 and 4 exchanged.
InteractionMatch_swapped(raw) ==
    CASE raw.kind = 1 -> Ok([variant |-> "Ping"])
      [] raw.kind = 2 ->
            IF IsSome(raw.data)
            THEN CommandFromData(CommandInteractionDataDeserialize(raw.data.some))
            ELSE Err(Custom(NoDataMsg))
      [] raw.kind = 3 -> Ok([variant |-> "CommandAutocomplete"])
      [] raw.kind = 4 -> Ok([variant |-> "MessageComponent"])
      [] raw.kind = 5 -> Ok([variant |-> "ModalSumbit"])
      [] OTHER -> Err(UnknownVariant(to_string(raw.kind),
                                     <<"1", "2", "3", "4", "5">>))

\* The match of Interaction::deserialize on raw.kind.
InteractionMatch(raw) ==
    CASE raw.kind = 1 -> Ok([variant |-> "Ping"])
      [] raw.kind = 2 ->
            IF IsSome(raw.data)
            THEN CommandFromData(CommandInteractionDataDeserialize(raw.data.some))
            ELSE Err(Custom(NoDataMsg))
      [] raw.kind = 3 -> Ok([variant |-> "MessageComponent"])
      [] raw.kind = 4 -> Ok([variant |-> "CommandAutocomplete"])
      [] raw.kind = 5 -> Ok([variant |-> "ModalSumbit"])
      [] OTHER -> Err(UnknownVariant(to_string(raw.kind),
                                     <<"1", "2", "3", "4", "5">>))

\* Interaction::deserialize
InteractionFromRaw(raw) == IF IsErr(raw) THEN raw ELSE InteractionMatch(raw.Ok)

InteractionDeserialize(j) == InteractionFromRaw(InteractionRawDeserialize(j))

(***************************************************************************)
(* register/command/choice.rs: ChoiceValue, Int(i32) | Float(f64) |        *)
(* String(String).                                                         *)
(***************************************************************************)
Int32(n) == [Int |-> n]
Float(f) == [Float |-> f]
String(str) == [String |-> str]
IsInt(v) == "Int" \in DOMAIN v
IsString(v) == "String" \in DOMAIN v

\* `x as i32` of an i64 x: its low 32 bits, read as two's complement.
AsI32(x) ==
    IF x[3] >= 2 ^ 15 THEN ((x[3] - LimbBase) * LimbBase) + x[4] ELSE (x[3] * LimbBase) + x[4]

\* ChoiceValue::Int for the i64 x: the variant holds an i32, so x is narrowed.
ChoiceValueInt(x) == Int32(AsI32(x))

(***************************************************************************)
(* A String that is measured is kept as the sequence of its characters'    *)
(* code points; String::len() is the length of its UTF-8 encoding in       *)
(* bytes.                                                                  *)
(***************************************************************************)
\* The bytes UTF-8 takes for the code point c.
Utf8Len(c) == IF c < 128 THEN 1 ELSE IF c < 2048 THEN 2 ELSE IF c < 65536 THEN 3 ELSE 4

\* String::len
RECURSIVE len(_)
len(str) == IF str = <<>> THEN 0 ELSE Utf8Len(Head(str)) + len(Tail(str))

(***************************************************************************)
(* What a serde Serializer is handed.  An integer of any width is written  *)
(* as a JSON number; a struct is the sequence of the fields given to       *)
(* SerializeStruct::serialize_field, in the order of the calls.            *)
(***************************************************************************)
JInt(n) == [int |-> n]

\* ser::Error::custom
SerError(msg) == [ser_custom |-> msg]

\* SerializeStruct::serialize_field(key, value), value serialized to r.
serialize_field(key, r) == IF IsOk(r) THEN Ok(<<[key |-> key, value |-> r.Ok]>>) ELSE r

\* SerializeStruct::skip_field(key): nothing is written.
skip_field == Ok(<<>>)

RECURSIVE Flatten(_)
Flatten(ss) == IF ss = <<>> THEN <<>> ELSE Head(ss) \o Flatten(Tail(ss))

\* The first error of the steps in order (the `?` and `return Err`), or the
\* steps' results in order.
Collect(steps) ==
    IF \E i \in 1..Len(steps) : IsErr(steps[i])
    THEN steps[CHOOSE i \in 1..Len(steps) : IsErr(steps[i]) /\ \A j \in 1..(i - 1) : IsOk(steps[j])]
    ELSE Ok([i \in 1..Len(steps) |-> steps[i].Ok])

\* SerializeStruct::end after the steps.
end(steps) ==
    IF IsErr(Collect(steps)) THEN Collect(steps)
    ELSE Ok([struct |-> Flatten(Collect(steps).Ok)])

\* Vec<T>::serialize, the elements serialized to rs.
SerializeVec(rs) == IF IsErr(Collect(rs)) THEN Collect(rs) ELSE Ok(JArr(Collect(rs).Ok))

(***************************************************************************)
(* register/command/choice.rs: Choice and its builder.                     *)
(***************************************************************************)
\* The greatest len() of a String choice value.
CHOICE_VALUE_MAX == 100

\* CommandOptionChoiceBuilder::new
CommandOptionChoiceBuilderNew ==
    [type |-> "CommandOptionChoiceBuilder", name |-> None, value |-> None]

\* CommandOptionChoiceBuilder::build
CommandOptionChoiceBuilderBuild(self) ==
    IF IsNone(self.name) THEN Err("'name' must be set")
    ELSE IF IsSome(self.value)
    THEN IF IsString(self.value.some) /\ len(self.value.some.String) > CHOICE_VALUE_MAX
         THEN Err("'value' cannot be longer than 100 chars")
         ELSE Ok([name |-> self.name.some, value |-> self.value.some])
    ELSE Err("'name' must be set")

\* ChoiceValue written as the value of a field: Int and Float as numbers.
ChoiceValueJson(v) ==
    IF IsInt(v) THEN JInt(v.Int)
    ELSE IF IsString(v) THEN JStr(v.String)
    ELSE JFloat(v.Float)

\* Choice::serialize
ChoiceSerialize(self) ==
    end(<<serialize_field("name", Ok(JStr(self.name))),
          IF IsString(self.value) /\ len(self.value.String) > CHOICE_VALUE_MAX
          THEN Err(SerError("Value cannot be longer than 100 chars"))
          ELSE serialize_field("value", Ok(ChoiceValueJson(self.value)))>>)

(***************************************************************************)
(* register/command/option.rs: CommandOptionBuilder.  The messages of the  *)
(* errors are the source's, its backquotes written as apostrophes.         *)
(***************************************************************************)
\* CommandOptionBuilder::new
CommandOptionBuilderNew ==
    [type |-> "CommandOptionBuilder",
     kind |-> None, name |-> None, description |-> None, required |-> None,
     choices |-> None, options |-> None, min_value |-> None, max_value |-> None,
     min_length |-> None, max_length |-> None, autocomplete |-> None]

\* The fields build() does not demand.
CommandOptionOptional ==
    {"required", "choices", "options", "min_value", "max_value",
     "min_length", "max_length", "autocomplete"}

\* The item put at the front of the list.
Push_front(o, item) == IF IsSome(o) THEN Some(<<item>> \o o.some) ELSE Some(<<item>>)

\* The single-item setters: `if let Some(list) = &mut self.list { list.push(item) }
\* else { self.list = Some(vec![item]) }`.
Push(o, item) == IF IsSome(o) THEN Some(Append(o.some, item)) ELSE Some(<<item>>)

\* The greatest min_length and max_length of an option.
OPTION_LENGTH_MAX == 6000

\* The check of min_length that looks at an Int only.
CheckMinLength_ints_only(value) ==
    IF IsInt(value)
    THEN IF value.Int < 0 THEN Err("'min_length' must be at least 0")
         ELSE IF value.Int > OPTION_LENGTH_MAX
         THEN Err("'min_length' cannot be greater than 6000")
         ELSE Ok(TRUE)
    ELSE Ok(TRUE)

\* The check of build() on min_length: an Int in 0..6000.
CheckMinLength(value) ==
    IF IsInt(value)
    THEN IF value.Int < 0 THEN Err("'min_length' must be at least 0")
         ELSE IF value.Int > OPTION_LENGTH_MAX
         THEN Err("'min_length' cannot be greater than 6000")
         ELSE Ok(TRUE)
    ELSE Err("'min_length' must be an integer")

\* The check of max_length with the lower bound of min_length.
CheckMaxLength_from_zero(value) ==
    IF IsInt(value)
    THEN IF value.Int < 0 THEN Err("'max_length' must be at least 1")
         ELSE IF value.Int > OPTION_LENGTH_MAX
         THEN Err("'max_length' cannot be greater than 6000")
         ELSE Ok(TRUE)
    ELSE Err("'max_length' must be an integer")

\* The check of build() on max_length: an Int in 1..6000.
CheckMaxLength(value) ==
    IF IsInt(value)
    THEN IF value.Int < 1 THEN Err("'max_length' must be at least 1")
         ELSE IF value.Int > OPTION_LENGTH_MAX
         THEN Err("'max_length' cannot be greater than 6000")
         ELSE Ok(TRUE)
    ELSE Err("'max_length' must be an integer")

\* build() refusing a min_length greater than the max_length.
CommandOptionBuilderBuild_ordered_lengths(self) ==
    IF IsNone(self.kind) THEN Err("'kind' must be set")
    ELSE IF IsNone(self.name) THEN Err("'name' must be set")
    ELSE IF IsNone(self.description) THEN Err("'description' must be set")
    ELSE IF IsSome(self.min_value) /\ IsString(self.min_value.some)
    THEN Err("'min_value' cannot be a string")
    ELSE IF IsSome(self.max_value) /\ IsString(self.max_value.some)
    THEN Err("'max_value' cannot be a string")
    ELSE IF IsSome(self.min_length) /\ IsErr(CheckMinLength(self.min_length.some))
    THEN CheckMinLength(self.min_length.some)
    ELSE IF IsSome(self.max_length) /\ IsErr(CheckMaxLength(self.max_length.some))
    THEN CheckMaxLength(self.max_length.some)
    ELSE IF /\ IsSome(self.min_length)
            /\ IsSome(self.max_length)
            /\ self.min_length.some.Int > self.max_length.some.Int
    THEN Err("'min_length' cannot be greater than 'max_length'")
    ELSE Ok([kind |-> self.kind.some,
             name |-> self.name.some,
             description |-> self.description.some,
             required |-> self.required,
             choices |-> self.choices,
             options |-> self.options,
             min_value |-> self.min_value,
             max_value |-> self.max_value,
             min_length |-> self.min_length,
             max_length |-> self.max_length,
             autocomplete |-> self.autocomplete])

\* build() without the check of max_value.
CommandOptionBuilderBuild_no_max_value(self) ==
    IF IsNone(self.kind) THEN Err("'kind' must be set")
    ELSE IF IsNone(self.name) THEN Err("'name' must be set")
    ELSE IF IsNone(self.description) THEN Err("'description' must be set")
    ELSE IF IsSome(self.min_value) /\ IsString(self.min_value.some)
    THEN Err("'min_value' cannot be a string")
    ELSE IF IsSome(self.min_length) /\ IsErr(CheckMinLength(self.min_length.some))
    THEN CheckMinLength(self.min_length.some)
    ELSE IF IsSome(self.max_length) /\ IsErr(CheckMaxLength(self.max_length.some))
    THEN CheckMaxLength(self.max_length.some)
    ELSE Ok([kind |-> self.kind.some,
             name |-> self.name.some,
             description |-> self.description.some,
             required |-> self.required,
             choices |-> self.choices,
             options |-> self.options,
             min_value |-> self.min_value,
             max_value |-> self.max_value,
             min_length |-> self.min_length,
             max_length |-> self.max_length,
             autocomplete |-> self.autocomplete])

\* build() with max_length checked before min_length.
CommandOptionBuilderBuild_max_first(self) ==
    IF IsNone(self.kind) THEN Err("'kind' must be set")
    ELSE IF IsNone(self.name) THEN Err("'name' must be set")
    ELSE IF IsNone(self.description) THEN Err("'description' must be set")
    ELSE IF IsSome(self.min_value) /\ IsString(self.min_value.some)
    THEN Err("'min_value' cannot be a string")
    ELSE IF IsSome(self.max_value) /\ IsString(self.max_value.some)
    THEN Err("'max_value' cannot be a string")
    ELSE IF IsSome(self.max_length) /\ IsErr(CheckMaxLength(self.max_length.some))
    THEN CheckMaxLength(self.max_length.some)
    ELSE IF IsSome(self.min_length) /\ IsErr(CheckMinLength(self.min_length.some))
    THEN CheckMinLength(self.min_length.some)
    ELSE Ok([kind |-> self.kind.some,
             name |-> self.name.some,
             description |-> self.description.some,
             required |-> self.required,
             choices |-> self.choices,
             options |-> self.options,
             min_value |-> self.min_value,
             max_value |-> self.max_value,
             min_length |-> self.min_length,
             max_length |-> self.max_length,
             autocomplete |-> self.autocomplete])

\* CommandOptionBuilder::build
CommandOptionBuilderBuild(self) ==
    IF IsNone(self.kind) THEN Err("'kind' must be set")
    ELSE IF IsNone(self.name) THEN Err("'name' must be set")
    ELSE IF IsNone(self.description) THEN Err("'description' must be set")
    ELSE IF IsSome(self.min_value) /\ IsString(self.min_value.some)
    THEN Err("'min_value' cannot be a string")
    ELSE IF IsSome(self.max_value) /\ IsString(self.max_value.some)
    THEN Err("'max_value' cannot be a string")
    ELSE IF IsSome(self.min_length) /\ IsErr(CheckMinLength(self.min_length.some))
    THEN CheckMinLength(self.min_length.some)
    ELSE IF IsSome(self.max_length) /\ IsErr(CheckMaxLength(self.max_length.some))
    THEN CheckMaxLength(self.max_length.some)
    ELSE Ok([kind |-> self.kind.some,
             name |-> self.name.some,
             description |-> self.description.some,
             required |-> self.required,
             choices |-> self.choices,
             options |-> self.options,
             min_value |-> self.min_value,
             max_value |-> self.max_value,
             min_length |-> self.min_length,
             max_length |-> self.max_length,
             autocomplete |-> self.autocomplete])

(***************************************************************************)
(* register/command/option.rs: CommandOption::serialize.                   *)
(***************************************************************************)
\* An Option field written whether it is Some or None.
SerializeIfSome_always(key, o, r) == serialize_field(key, r)

\* An Option field that is written when it is Some and skipped when None.
SerializeIfSome(key, o, r) == IF IsSome(o) THEN serialize_field(key, r) ELSE skip_field

\* min_value and max_value: Int and Float are written, a String is an error.
SerializeNumberField(key, o, msg) ==
    IF IsNone(o) THEN skip_field
    ELSE IF IsString(o.some) THEN Err(SerError(msg))
    ELSE serialize_field(key, Ok(ChoiceValueJson(o.some)))

\* min_length and max_length with an Int of 0 taken for an unset field.
SerializeIntField_nonzero(key, o, msg) ==
    IF IsNone(o) THEN skip_field
    ELSE IF IsInt(o.some)
    THEN IF o.some.Int = 0 THEN skip_field ELSE serialize_field(key, Ok(JInt(o.some.Int)))
    ELSE Err(SerError(msg))

\* min_length and max_length: an Int is written, anything else is an error.
SerializeIntField(key, o, msg) ==
    IF IsNone(o) THEN skip_field
    ELSE IF IsInt(o.some) THEN serialize_field(key, Ok(JInt(o.some.Int)))
    ELSE Err(SerError(msg))

\* Vec<Choice>::serialize of an Option<Vec<Choice>> that is Some.
SerializeChoices(o) ==
    IF IsSome(o)
    THEN SerializeVec([i \in 1..Len(o.some) |-> ChoiceSerialize(o.some[i])])
    ELSE Ok(JNull)

\* CommandOption::serialize, the nested options serialized to options.
CommandOptionSerializeFields(self, options) ==
    end(<<serialize_field("type", Ok(JInt(self.kind))),
          serialize_field("name", Ok(JStr(self.name))),
          serialize_field("description", Ok(JStr(self.description))),
          SerializeIfSome("required", self.required,
                          IF IsSome(self.required) THEN Ok(JBool(self.required.some)) ELSE Ok(JNull)),
          SerializeIfSome("choices", self.choices, SerializeChoices(self.choices)),
          SerializeIfSome("options", self.options, options),
          SerializeNumberField("min_value", self.min_value,
                               "'min_value' should be 'Int' or 'Float'"),
          SerializeNumberField("max_value", self.max_value,
                               "'max_value' should be 'Int' or 'Float'"),
          SerializeIntField("min_length", self.min_length, "'min_length' should be 'Int'"),
          SerializeIntField("max_length", self.max_length, "'max_length' should be 'Int'"),
          SerializeIfSome("autocomplete", self.autocomplete,
                          IF IsSome(self.autocomplete) THEN Ok(JBool(self.autocomplete.some))
                          ELSE Ok(JNull))>>)

\* CommandOption::serialize
RECURSIVE CommandOptionSerialize(_)
CommandOptionSerialize(self) ==
    CommandOptionSerializeFields(self,
        IF IsSome(self.options)
        THEN SerializeVec([i \in 1..Len(self.options.some) |->
                              CommandOptionSerialize(self.options.some[i])])
        ELSE Ok(JNull))

(***************************************************************************)
(* register/command/mod.rs: CommandBuilder.                                *)
(***************************************************************************)
\* CommandBuilder::new
CommandBuilderNew ==
    [type |-> "CommandBuilder",
     name |-> None, kind |-> None, description |-> None, options |-> None]

\* Option<String>::unwrap_or_default
UnwrapOrDefault(o) == IF IsSome(o) THEN o.some ELSE ""

\* build() demanding a description, as the option's build() does.
CommandBuilderBuild_requires_description(self) ==
    IF IsNone(self.name) THEN Err("'name' must be set")
    ELSE IF IsNone(self.kind) THEN Err("'kind' must be set")
    ELSE IF IsNone(self.description) THEN Err("'description' must be set")
    ELSE Ok([name |-> self.name.some,
             kind |-> self.kind.some,
             description |-> self.description.some,
             options |-> self.options])

\* CommandBuilder::build
CommandBuilderBuild(self) ==
    IF IsNone(self.name) THEN Err("'name' must be set")
    ELSE IF IsNone(self.kind) THEN Err("'kind' must be set")
    ELSE Ok([name |-> self.name.some,
             kind |-> self.kind.some,
             description |-> UnwrapOrDefault(self.description),
             options |-> self.options])

\* Vec<CommandOption>::serialize of an Option<Vec<CommandOption>> that is Some.
SerializeOptions(o) ==
    IF IsSome(o)
    THEN SerializeVec([i \in 1..Len(o.some) |-> CommandOptionSerialize(o.some[i])])
    ELSE Ok(JNull)

\* Command::serialize with an absent list written as an empty one.
CommandSerialize_empty_list(self) ==
    end(<<serialize_field("name", Ok(JStr(self.name))),
          serialize_field("type", Ok(JInt(self.kind))),
          serialize_field("description", Ok(JStr(self.description))),
          serialize_field("options",
                          IF IsSome(self.options) THEN SerializeOptions(self.options)
                          ELSE Ok(JArr(<<>>)))>>)

\* Command::serialize
CommandSerialize(self) ==
    end(<<serialize_field("name", Ok(JStr(self.name))),
          serialize_field("type", Ok(JInt(self.kind))),
          serialize_field("description", Ok(JStr(self.description))),
          SerializeIfSome("options", self.options, SerializeOptions(self.options))>>)

(***************************************************************************)
(* response/data/message/component/text_input.rs: TextInput and its        *)
(* builder.  The lengths are u16; the label is measured, so it is kept as  *)
(* its code points.                                                        *)
(***************************************************************************)
\* A panic of the thread that called.
Panic(msg) == [panic |-> msg]
IsPanic(r) == "panic" \in DOMAIN r

TextInputStyle == 1..2

\* The greatest len() of a label, and the greatest min_length and max_length.
TEXT_INPUT_LABEL_MAX == 45
TEXT_INPUT_LENGTH_MAX == 4000

\* TextInputBuilder::new
TextInputBuilderNew ==
    [type |-> "TextInputBuilder",
     custom_id |-> None, style |-> None, label |-> None, min_length |-> None,
     max_length |-> None, required |-> None, value |-> None, placeholder |-> None]

\* build() with max_length checked against the range of min_length.
TextInputBuilderBuild_max_from_zero(self) ==
    IF IsNone(self.custom_id) THEN Err("'custom_id' must be set")
    ELSE IF IsNone(self.style) THEN Err("'style' must be set")
    ELSE IF IsSome(self.label) /\ len(self.label.some) > TEXT_INPUT_LABEL_MAX
    THEN Err("'label' cannot be longet than 45 chars")
    ELSE IF IsSome(self.min_length) /\ self.min_length.some > TEXT_INPUT_LENGTH_MAX
    THEN Err("'min_length' must be between 0 and 4000 chars")
    ELSE IF IsSome(self.max_length) /\ self.max_length.some > TEXT_INPUT_LENGTH_MAX
    THEN Err("'min_length' must be between 1 and 4000 chars")
    ELSE IF IsNone(self.label) THEN Panic("called 'Option::unwrap()' on a 'None' value")
    ELSE Ok([custom_id |-> self.custom_id.some,
             style |-> self.style.some,
             label |-> self.label.some,
             min_length |-> self.min_length,
             max_length |-> self.max_length,
             required |-> self.required,
             value |-> self.value,
             placeholder |-> self.placeholder])

\* TextInputBuilder::build.  The label is checked only when it is set, and
\* unwrapped whether it is set or not.
TextInputBuilderBuild(self) ==
    IF IsNone(self.custom_id) THEN Err("'custom_id' must be set")
    ELSE IF IsNone(self.style) THEN Err("'style' must be set")
    ELSE IF IsSome(self.label) /\ len(self.label.some) > TEXT_INPUT_LABEL_MAX
    THEN Err("'label' cannot be longet than 45 chars")
    ELSE IF IsSome(self.min_length) /\ self.min_length.some > TEXT_INPUT_LENGTH_MAX
    THEN Err("'min_length' must be between 0 and 4000 chars")
    ELSE IF IsSome(self.max_length)
            /\ (self.max_length.some < 1 \/ self.max_length.some > TEXT_INPUT_LENGTH_MAX)
    THEN Err("'min_length' must be between 1 and 4000 chars")
    ELSE IF IsNone(self.label) THEN Panic("called 'Option::unwrap()' on a 'None' value")
    ELSE Ok([custom_id |-> self.custom_id.some,
             style |-> self.style.some,
             label |-> self.label.some,
             min_length |-> self.min_length,
             max_length |-> self.max_length,
             required |-> self.required,
             value |-> self.value,
             placeholder |-> self.placeholder])

\* An Option field under #[serde(skip_serializing_if = "Option::is_none")], or
\* matched with skip_field in the None arm: what Some holds is written, a
\* String, a bool or an integer.
SkipIfNoneStr(key, o) == IF IsSome(o) THEN serialize_field(key, Ok(JStr(o.some))) ELSE skip_field
SkipIfNoneBool(key, o) == IF IsSome(o) THEN serialize_field(key, Ok(JBool(o.some))) ELSE skip_field
SkipIfNoneInt(key, o) == IF IsSome(o) THEN serialize_field(key, Ok(JInt(o.some))) ELSE skip_field

\* TextInput::serialize (derived)
TextInputSerialize(self) ==
    end(<<serialize_field("custom_id", Ok(JStr(self.custom_id))),
          serialize_field("style", Ok(JInt(self.style))),
          serialize_field("label", Ok(JStr(self.label))),
          SkipIfNoneInt("min_length", self.min_length),
          SkipIfNoneInt("max_length", self.max_length),
          SkipIfNoneBool("required", self.required),
          SkipIfNoneStr("value", self.value),
          SkipIfNoneStr("placeholder", self.placeholder)>>)

(***************************************************************************)
(* response/data/message/component/button.rs: ButtonComponent and its      *)
(* builder.                                                                *)
(***************************************************************************)
ButtonStyle == 1..6

\* ButtonComponentBuilder::new
ButtonComponentBuilderNew ==
    [type |-> "ButtonComponentBuilder",
     style |-> None, label |-> None, custom_id |-> None, url |-> None, disabled |-> None]

\* ButtonComponentBuilder::build
ButtonComponentBuilderBuild(self) ==
    IF IsNone(self.style) THEN Err("'style' must be set")
    ELSE Ok([style |-> self.style.some,
             label |-> self.label,
             custom_id |-> self.custom_id,
             url |-> self.url,
             disabled |-> self.disabled])

\* ButtonComponent::serialize.  The type written is 5 and a set `disabled` is
\* written under the key "url".
ButtonComponentSerialize(self) ==
    end(<<serialize_field("type", Ok(JInt(5))),
          serialize_field("style", Ok(JInt(self.style))),
          SkipIfNoneStr("label", self.label),
          SkipIfNoneStr("custom_id", self.custom_id),
          SkipIfNoneStr("url", self.url),
          SkipIfNoneBool("url", self.disabled)>>)

(***************************************************************************)
(* response/data/message/component/select_menu.rs: SelectMenuOption,       *)
(* SelectMenu and their builders.                                          *)
(***************************************************************************)
\* SelectMenuOptionBuilder::new
SelectMenuOptionBuilderNew ==
    [type |-> "SelectMenuOptionBuilder",
     label |-> None, value |-> None, description |-> None, default |-> None]

\* SelectMenuOptionBuilder::build
SelectMenuOptionBuilderBuild(self) ==
    IF IsNone(self.label) THEN Err("'label' must be set")
    ELSE IF IsNone(self.value) THEN Err("'value' must be set")
    ELSE Ok([label |-> self.label.some,
             value |-> self.value.some,
             description |-> self.description,
             default |-> self.default])

\* SelectMenuOption::serialize (derived)
SelectMenuOptionSerialize(self) ==
    end(<<serialize_field("label", Ok(JStr(self.label))),
          serialize_field("value", Ok(JStr(self.value))),
          SkipIfNoneStr("description", self.description),
          SkipIfNoneStr("default", self.default)>>)

\* SelectMenuBuilder::new
SelectMenuBuilderNew ==
    [type |-> "SelectMenuBuilder",
     custom_id |-> None, options |-> None, placeholder |-> None, disabled |-> None]

\* SelectMenuBuilder::build
SelectMenuBuilderBuild(self) ==
    IF IsNone(self.custom_id) THEN Err("'custom_id' must be set")
    ELSE Ok([custom_id |-> self.custom_id.some,
             options |-> self.options,
             placeholder |-> self.placeholder,
             disabled |-> self.disabled])

\* Vec<SelectMenuOption>::serialize of an Option that is Some.
SerializeSelectMenuOptions(o) ==
    IF IsSome(o)
    THEN SerializeVec([i \in 1..Len(o.some) |-> SelectMenuOptionSerialize(o.some[i])])
    ELSE Ok(JNull)

(***************************************************************************)
(* response/data/message/component/action_row.rs and mod.rs: ActionRow     *)
(* and MessageComponent.  A MessageComponent is the record of its variant, *)
(* [Button |-> b] being MessageComponent::Button(b).                       *)
(***************************************************************************)
\* ActionRowBuilder::new
ActionRowBuilderNew == [type |-> "ActionRowBuilder", components |-> <<>>]

\* ActionRowBuilder::build
ActionRowBuilderBuild(self) == [components |-> self.components]

\* ActionRow::serialize, its components serialized to components.
ActionRowSerialize(components) ==
    end(<<serialize_field("type", Ok(JInt(1))),
          serialize_field("components", components)>>)

\* The arm of a select menu in MessageComponent::serialize, which writes the
\* discriminant of its variant.
SelectMenuSerialize(discriminant, select_menu) ==
    end(<<serialize_field("type", Ok(JInt(discriminant))),
          serialize_field("custom_id", Ok(JStr(select_menu.custom_id))),
          IF IsSome(select_menu.options)
          THEN serialize_field("options", SerializeSelectMenuOptions(select_menu.options))
          ELSE skip_field,
          SkipIfNoneStr("placeholder", select_menu.placeholder),
          SkipIfNoneBool("disabled", select_menu.disabled)>>)

\* The arm of MessageComponent::TextInput in MessageComponent::serialize.
TextInputComponentSerialize(input) ==
    end(<<serialize_field("type", Ok(JInt(4))),
          serialize_field("custom_id", Ok(JStr(input.custom_id))),
          serialize_field("label", Ok(JStr(input.label))),
          SkipIfNoneInt("min_length", input.min_length),
          SkipIfNoneInt("max_length", input.max_length),
          SkipIfNoneBool("required", input.required),
          SkipIfNoneStr("value", input.value),
          SkipIfNoneStr("placeholder", input.placeholder)>>)

\* The variant of a MessageComponent.
VariantOf(c) == CHOOSE v \in DOMAIN c : TRUE

\* MessageComponent::serialize of a component that is no ActionRow.
LeafComponentSerialize(c) ==
    CASE "Button" \in DOMAIN c -> ButtonComponentSerialize(c.Button)
      [] "StringSelect" \in DOMAIN c -> SelectMenuSerialize(3, c.StringSelect)
      [] "TextInput" \in DOMAIN c -> TextInputComponentSerialize(c.TextInput)
      [] "UserSelect" \in DOMAIN c -> SelectMenuSerialize(5, c.UserSelect)
      [] "RoleSelect" \in DOMAIN c -> SelectMenuSerialize(6, c.RoleSelect)
      [] "MentionableSelect" \in DOMAIN c -> SelectMenuSerialize(7, c.MentionableSelect)
      [] "ChannelSelect" \in DOMAIN c -> SelectMenuSerialize(8, c.ChannelSelect)

\* MessageComponent::serialize
RECURSIVE MessageComponentSerialize(_)
MessageComponentSerialize(c) ==
    IF "ActionRow" \in DOMAIN c
    THEN ActionRowSerialize(
             SerializeVec([i \in 1..Len(c.ActionRow.components) |->
                              MessageComponentSerialize(c.ActionRow.components[i])]))
    ELSE LeafComponentSerialize(c)

(***************************************************************************)
(* response/data/message/mod.rs: MessageFlags, Message and its builder.    *)
(* A MessageFlags value is the set of the positions of its bits.           *)
(***************************************************************************)
\* The names of the flags bitflags! defines.
MessageFlagNames ==
    {"CROSSPOSTED", "IS_CROSSPOST", "SUPPRESS_EMBEDS", "SOURCE_MESSAGE_DELETED", "URGENT",
     "HAS_THREAD", "EPHEMERAL", "LOADING", "FAILED_TO_MENTION_SOME_ROLES_IN_THREAD",
     "SUPPRESS_NOTIFICATIONS", "IS_VOICE_MESSAGE"}

\* The flags numbered one after the other, with no gap after bit 8.
MessageFlag_contiguous(name) ==
    CASE name = "CROSSPOSTED" -> 0
      [] name = "IS_CROSSPOST" -> 1
      [] name = "SUPPRESS_EMBEDS" -> 2
      [] name = "SOURCE_MESSAGE_DELETED" -> 3
      [] name = "URGENT" -> 4
      [] name = "HAS_THREAD" -> 5
      [] name = "EPHEMERAL" -> 6
      [] name = "LOADING" -> 7
      [] name = "FAILED_TO_MENTION_SOME_ROLES_IN_THREAD" -> 8
      [] name = "SUPPRESS_NOTIFICATIONS" -> 9
      [] name = "IS_VOICE_MESSAGE" -> 10

\* const NAME = 1 << position: the position of the bit of the flag.
MessageFlag(name) ==
    CASE name = "CROSSPOSTED" -> 0
      [] name = "IS_CROSSPOST" -> 1
      [] name = "SUPPRESS_EMBEDS" -> 2
      [] name = "SOURCE_MESSAGE_DELETED" -> 3
      [] name = "URGENT" -> 4
      [] name = "HAS_THREAD" -> 5
      [] name = "EPHEMERAL" -> 6
      [] name = "LOADING" -> 7
      [] name = "FAILED_TO_MENTION_SOME_ROLES_IN_THREAD" -> 8
      [] name = "SUPPRESS_NOTIFICATIONS" -> 12
      [] name = "IS_VOICE_MESSAGE" -> 13

\* MessageFlags::A | MessageFlags::B | ...: the flags of the names, or'ed.
FlagsOf(names) == {MessageFlag(n) : n \in names}

\* The positions of the flags bitflags! defines.
MessageFlagBits == (0..8) \cup {12, 13}

\* MessageFlags::bits
RECURSIVE bits(_)
bits(flags) ==
    IF flags = {} THEN 0
    ELSE LET b == CHOOSE x \in flags : TRUE IN (2 ^ b) + bits(flags \ {b})

\* MessageFlags::serialize
MessageFlagsSerialize(flags) == JInt(bits(flags))

\* MessageBuilder::new
MessageBuilderNew ==
    [type |-> "MessageBuilder",
     tts |-> None, content |-> None, flags |-> None, components |-> None]

\* MessageBuilder::build
MessageBuilderBuild(self) ==
    [tts |-> self.tts, content |-> self.content, flags |-> self.flags,
     components |-> self.components]

\* Vec<MessageComponent>::serialize of an Option that is Some.
SerializeComponents(o) ==
    IF IsSome(o)
    THEN SerializeVec([i \in 1..Len(o.some) |-> MessageComponentSerialize(o.some[i])])
    ELSE Ok(JNull)

\* Message::serialize (derived)
MessageSerialize(self) ==
    end(<<SkipIfNoneBool("tts", self.tts),
          SkipIfNoneStr("content", self.content),
          IF IsSome(self.flags)
          THEN serialize_field("flags", Ok(MessageFlagsSerialize(self.flags.some)))
          ELSE skip_field,
          IF IsSome(self.components)
          THEN serialize_field("components", SerializeComponents(self.components))
          ELSE skip_field>>)

(***************************************************************************)
(* response/response.rs: InteractionResponse, the record of its variant.   *)
(* Autocomplete and Modal are declared outside the source at hand: their   *)
(* payloads are kept whole.                                                *)
(***************************************************************************)
\* Autocomplete::serialize and Modal::serialize
PayloadSerialize(payload) == Ok([payload |-> payload])

\* InteractionResponse::serialize with an empty object for the variants that
\* hold no payload.
InteractionResponseSerialize_empty_data(self) ==
    CASE "Pong" \in DOMAIN self ->
            end(<<serialize_field("type", Ok(JInt(1))),
                  serialize_field("data", Ok([struct |-> <<>>]))>>)
      [] "Message" \in DOMAIN self ->
            end(<<serialize_field("type", Ok(JInt(4))),
                  serialize_field("data", MessageSerialize(self.Message))>>)
      [] "DeferResponse" \in DOMAIN self ->
            end(<<serialize_field("type", Ok(JInt(5))),
                  serialize_field("data", Ok([struct |-> <<>>]))>>)
      [] "DeferredUpdateMessage" \in DOMAIN self ->
            end(<<serialize_field("type", Ok(JInt(6))),
                  serialize_field("data", MessageSerialize(self.DeferredUpdateMessage))>>)
      [] "UpdateMessage" \in DOMAIN self ->
            end(<<serialize_field("type", Ok(JInt(7))),
                  serialize_field("data", MessageSerialize(self.UpdateMessage))>>)
      [] "Autocomplete" \in DOMAIN self ->
            end(<<serialize_field("type", Ok(JInt(8))),
                  serialize_field("data", PayloadSerialize(self.Autocomplete))>>)
      [] "Modal" \in DOMAIN self ->
            end(<<serialize_field("type", Ok(JInt(9))),
                  serialize_field("data", PayloadSerialize(self.Modal))>>)

\* InteractionResponse::serialize
InteractionResponseSerialize(self) ==
    CASE "Pong" \in DOMAIN self ->
            end(<<serialize_field("type", Ok(JInt(1))), skip_field>>)
      [] "Message" \in DOMAIN self ->
            end(<<serialize_field("type", Ok(JInt(4))),
                  serialize_field("data", MessageSerialize(self.Message))>>)
      [] "DeferResponse" \in DOMAIN self ->
            end(<<serialize_field("type", Ok(JInt(5))), skip_field>>)
      [] "DeferredUpdateMessage" \in DOMAIN self ->
            end(<<serialize_field("type", Ok(JInt(6))),
                  serialize_field("data", MessageSerialize(self.DeferredUpdateMessage))>>)
      [] "UpdateMessage" \in DOMAIN self ->
            end(<<serialize_field("type", Ok(JInt(7))),
                  serialize_field("data", MessageSerialize(self.UpdateMessage))>>)
      [] "Autocomplete" \in DOMAIN self ->
            end(<<serialize_field("type", Ok(JInt(8))),
                  serialize_field("data", PayloadSerialize(self.Autocomplete))>>)
      [] "Modal" \in DOMAIN self ->
            end(<<serialize_field("type", Ok(JInt(9))),
                  serialize_field("data", PayloadSerialize(self.Modal))>>)

(***************************************************************************)
(* The inputs the operations are run on.                                   *)
(***************************************************************************)
\* Unsigned integers: around 0, around 2^63, at the ties of `as f64`, at the top.
U64Inputs ==
    {U64(n) : n \in 0..Slack}
    \cup {SubSmall(I64_MAX, d) : d \in 0..Slack}
    \cup {<<2 ^ 15, 0, 0, d>> : d \in 0..Slack}
    \cup {<<2 ^ 15, 0, 0, (2 ^ 10) + d>> : d \in 0..Slack}
    \cup {<<2 ^ 15, 0, 0, (2 ^ 11) + (2 ^ 10) + d>> : d \in 0..Slack}
    \cup {SubSmall(U64_MAX, d) : d \in 0..Slack}

\* Negative integers, as i64 bit patterns: -1 - d, and i64::MIN.
I64Inputs == {SubSmall(MinusOne, d) : d \in 0..Slack} \cup {TwoTo63}

\* Floats: 1.5, -2.5, 2^63.
F64Inputs ==
    {F64(FALSE, <<0, 0, 0, 0, 1>>, TRUE),
     F64(TRUE, <<0, 0, 0, 0, 2>>, TRUE),
     F64(FALSE, <<0, 2 ^ 15, 0, 0, 0>>, FALSE)}

StringInputs == {"", "x"}

\* The JSON scalars.
JsonScalars ==
    {JStr(x) : x \in StringInputs} \cup {JBool(b) : b \in BOOLEAN}
    \cup {JPos(v) : v \in U64Inputs} \cup {JNeg(v) : v \in I64Inputs}
    \cup {JFloat(f) : f \in F64Inputs}

\* The JSON values that are no scalar.
JsonNonScalars ==
    {JNull, JArr(<<>>), JArr(<<JStr("x")>>), JArr(<<JPos(U64(1)), JBool(TRUE)>>),
     JObj(<<>>), JObj([value |-> JStr("x")]), JObj([name |-> JStr("x"), type |-> JPos(U64(3))])}

JNum(n) == JPos(U64(n))

\* The payloads of a command envelope: tree nodes, top-level command payloads,
\* and payloads that are neither.
Payloads ==
    {JObj([name |-> JStr("cmd"), type |-> JNum(1)]),
     JObj([id |-> JNum(7), name |-> JStr("cmd"), type |-> JNum(1), guild_id |-> JNum(9),
           target_id |-> JNum(11),
           options |-> JArr(<<JObj([name |-> JStr("a"), type |-> JNum(3), value |-> JStr("x")]),
                              JObj([name |-> JStr("a"), type |-> JNum(4), value |-> JNum(5)])>>)]),
     JObj([id |-> JNum(7), name |-> JStr("cmd"), type |-> JNum(4)]),
     JObj([id |-> JStr("7"), name |-> JStr("cmd"), type |-> JNum(2), target_id |-> JStr("11")]),
     JObj([name |-> JStr("cmd"), type |-> JNum(11), value |-> JNum(5), focused |-> JBool(TRUE)]),
     JObj([name |-> JStr("cmd"), type |-> JNum(2), value |-> JNull, options |-> JNull,
           focused |-> JNull]),
     JObj([name |-> JStr("cmd"), type |-> JNum(12)]),
     JObj([name |-> JStr("cmd"), type |-> JNum(0)]),
     JObj([name |-> JStr("cmd")]),
     JObj([type |-> JNum(1)]),
     JObj([name |-> JNum(5), type |-> JNum(1)]),
     JObj([name |-> JStr("cmd"), type |-> JNum(1),
           options |-> JArr(<<JObj([name |-> JStr("a"), type |-> JNum(3)]),
                              JObj([name |-> JStr("b")])>>)]),
     JObj([name |-> JStr("cmd"), type |-> JNum(1), value |-> JArr(<<>>)]),
     JObj([name |-> JStr("cmd"), type |-> JNum(1), focused |-> JStr("yes")]),
     JObj([name |-> JStr("cmd"), type |-> JNum(1), options |-> JObj(<<>>)]),
     JObj(<<>>),
     JStr("cmd"),
     JNum(1),
     JBool(TRUE),
     JArr(<<>>),
     JArr(<<JStr("cmd"), JNum(1), JNull, JNull, JNull>>),
     JArr(<<JStr("cmd"), JNum(1), JNull, JNull, JNull, JNull>>)}

\* The values of the `type` key of an envelope.
Discriminants ==
    {JNum(n) : n \in 0..(5 + Slack)}
    \cup {JNum(n) : n \in (U8_MAX - Slack)..(U8_MAX + Slack)}
    \cup {JPos(U64_MAX), JNeg(MinusOne), JStr("2"), JFloat(F64(FALSE, <<0, 0, 0, 0, 2>>, FALSE))}

\* The `data` key of an envelope.
DataInputs == Payloads \cup {JNull}

\* The envelopes: objects with and without each key, and some that are no object.
Envelopes ==
    {JObj([type |-> t, data |-> d]) : t \in Discriminants, d \in DataInputs}
    \cup {JObj([type |-> t]) : t \in Discriminants}
    \cup {JObj([data |-> d]) : d \in DataInputs}
    \cup {JArr(<<t, d>>) : t \in {JNum(1), JNum(2), JNum(6)},
                            d \in {JNull, JObj([name |-> JStr("cmd"), type |-> JNum(1)])}}
    \cup {JObj(<<>>), JNull, JStr("2"), JNum(2), JArr(<<>>), JArr(<<JNum(1)>>),
          JArr(<<JNum(1), JNull, JNull>>)}

\* The values given to the builders' setters.
\* SubCommand, String and Attachment: build() reads no kind.
KindInputs == {1, 3, 11}

LengthInts == ((0 - Slack)..Slack) \cup ((OPTION_LENGTH_MAX - Slack)..(OPTION_LENGTH_MAX + Slack))

ChoiceValueInputs ==
    {Int32(0), Float(F64(FALSE, <<0, 0, 0, 0, 1>>, TRUE)), String(<<120>>)}

LengthInputs ==
    {Int32(n) : n \in LengthInts}
    \cup {Float(F64(FALSE, <<0, 0, 0, 0, 1>>, TRUE)), String(<<120>>)}

\* The string of n characters c.
Repeat(c, n) == [i \in 1..n |-> c]

\* String choice values around the cap: of one-byte characters ("a") and of
\* two-byte characters (U+00E9).
ChoiceStringInputs ==
    {<<>>}
    \cup {Repeat(97, n) : n \in (CHOICE_VALUE_MAX - Slack)..(CHOICE_VALUE_MAX + Slack)}
    \cup {Repeat(233, n) : n \in {50, 51, CHOICE_VALUE_MAX}}

\* The values given to CommandOptionChoiceBuilder::value.
ChoiceInputs ==
    {Int32(0), Int32(0 - 1), Float(F64(FALSE, <<0, 0, 0, 0, 1>>, TRUE))}
    \cup {String(str) : str \in ChoiceStringInputs}

\* The values build() returned for the builders bs.
Built(results) == {r.Ok : r \in {x \in results : IsOk(x)}}

\* Choices that were built, given to the setters of an option.
BuiltChoices ==
    Built({CommandOptionChoiceBuilderBuild(
               [type |-> "CommandOptionChoiceBuilder", name |-> Some("c"), value |-> Some(v)]) :
           v \in {Int32(0), Float(F64(FALSE, <<0, 0, 0, 0, 1>>, TRUE)),
                  String(Repeat(97, CHOICE_VALUE_MAX)), String(Repeat(97, CHOICE_VALUE_MAX + 1))}})

\* An option builder with the fields build() demands set.
OptionBuilderOf(kind, name) ==
    [CommandOptionBuilderNew EXCEPT !.kind = Some(kind), !.name = Some(name),
                                    !.description = Some("x")]

\* Options without nested options that were built.
BuiltLeafOptions ==
    Built({CommandOptionBuilderBuild(b) :
           b \in {OptionBuilderOf(3, "a"),
                  [OptionBuilderOf(4, "b") EXCEPT
                      !.choices = Some(<<CHOOSE c \in BuiltChoices : IsInt(c.value)>>),
                      !.min_value = Some(Int32(0))],
                  [OptionBuilderOf(3, "bad") EXCEPT !.min_length = Some(String(<<120>>))]}})

\* Options that were built, given to the setters of an option and of a command.
BuiltOptions ==
    BuiltLeafOptions
    \cup Built({CommandOptionBuilderBuild(
                    [OptionBuilderOf(1, "sub") EXCEPT !.options = Some(<<o>>)]) :
                o \in BuiltLeafOptions})

\* The lists given to the whole-list setters.
Lists(items) == {<<>>} \cup {<<i>> : i \in items}

\* What a list field counts in the budget of a builder.
ListCost(o) == IF IsNone(o) THEN 0 ELSE IF Len(o.some) = 0 THEN 1 ELSE Len(o.some)

\* The optional inputs an option builder holds.
OptionalCost(b) ==
    Cardinality({f \in CommandOptionOptional \ {"choices", "options"} : IsSome(b[f])})
    + ListCost(b.choices) + ListCost(b.options)

\* The greatest u16.
U16_MAX == 65535

\* The lengths given to a TextInputBuilder: around 0, around 4000, and the top.
U16Inputs ==
    (0..Slack)
    \cup ((TEXT_INPUT_LENGTH_MAX - Slack)..(TEXT_INPUT_LENGTH_MAX + Slack))
    \cup {U16_MAX}

\* The labels given to a TextInputBuilder: around 45 characters "a".
LabelInputs ==
    {Repeat(97, n) : n \in (TEXT_INPUT_LABEL_MAX - Slack)..(TEXT_INPUT_LABEL_MAX + Slack)}

\* The flags given to a MessageBuilder: none, each flag alone, CROSSPOSTED
\* with IS_VOICE_MESSAGE, EPHEMERAL with LOADING and SUPPRESS_NOTIFICATIONS,
\* and all of them.
FlagsInputs ==
    {FlagsOf(names) :
        names \in {{}, {"CROSSPOSTED", "IS_VOICE_MESSAGE"},
                   {"EPHEMERAL", "LOADING", "SUPPRESS_NOTIFICATIONS"}, MessageFlagNames}
                  \cup {{n} : n \in MessageFlagNames}}

\* Select-menu options that were built.
BuiltSelectMenuOptions ==
    Built({SelectMenuOptionBuilderBuild(
               [SelectMenuOptionBuilderNew EXCEPT !.label = Some("l"), !.value = Some("v"),
                                                  !.description = d]) :
           d \in {None, Some("d")}})

\* Components that are no ActionRow and were built: a button with nothing
\* but its style, a disabled button, select menus, a text input.
BuiltLeafComponents ==
    {[Button |-> b] :
        b \in Built({ButtonComponentBuilderBuild(
                         [ButtonComponentBuilderNew EXCEPT !.style = Some(1), !.disabled = d]) :
                     d \in {None, Some(TRUE)}})}
    \cup {[StringSelect |-> m] :
             m \in Built({SelectMenuBuilderBuild(
                              [SelectMenuBuilderNew EXCEPT
                                  !.custom_id = Some("id"),
                                  !.options = Some(<<o>>)]) : o \in BuiltSelectMenuOptions})}
    \cup {[ChannelSelect |-> m] :
             m \in Built({SelectMenuBuilderBuild(
                              [SelectMenuBuilderNew EXCEPT !.custom_id = Some("id")])})}
    \cup {[TextInput |-> t] :
             t \in Built({TextInputBuilderBuild(
                              [TextInputBuilderNew EXCEPT
                                  !.custom_id = Some("id"), !.style = Some(2),
                                  !.label = Some(<<97>>), !.min_length = Some(0)])})}

\* Components that were built, given to the setters of an ActionRow and of a
\* Message.
BuiltComponents ==
    BuiltLeafComponents
    \cup {[ActionRow |-> ActionRowBuilderBuild(
                             [ActionRowBuilderNew EXCEPT !.components = <<c>>])] :
          c \in BuiltLeafComponents}

\* Messages that were built.
BuiltMessages ==
    {MessageBuilderBuild(
         [MessageBuilderNew EXCEPT !.content = t, !.flags = f, !.components = cs]) :
     t \in {None, Some("hi")}, f \in {None, Some(FlagsOf({"EPHEMERAL"}))},
     cs \in {None} \cup {Some(<<c>>) : c \in BuiltComponents}}

\* The payloads of InteractionResponse::Autocomplete and ::Modal.
PayloadInputs == {"payload"}

\* The optional fields of a response-side builder b that are set.
SetAmong(b, fields) == Cardinality({f \in fields : IsSome(b[f])})

\* The optional inputs a response-side builder holds.
BuilderCost(b) ==
    CASE b.type = "TextInputBuilder" ->
            SetAmong(b, {"min_length", "max_length", "required", "value", "placeholder"})
      [] b.type = "ButtonComponentBuilder" ->
            SetAmong(b, {"label", "custom_id", "url", "disabled"})
      [] b.type = "SelectMenuOptionBuilder" -> SetAmong(b, {"description", "default"})
      [] b.type = "SelectMenuBuilder" ->
            SetAmong(b, {"placeholder", "disabled"}) + ListCost(b.options)
      [] b.type = "ActionRowBuilder" -> Len(b.components)
      [] b.type = "MessageBuilder" ->
            SetAmong(b, {"tts", "content", "flags"}) + ListCost(b.components)

(***************************************************************************)
(* The state machine.                                                      *)
(***************************************************************************)
NoBuilder == [type |-> "none"]
NoCall == [op |-> "none"]
NoResult == [none |-> TRUE]

Init ==
    /\ builder = NoBuilder
    /\ call = NoCall
    /\ result = NoResult

\* No builder is under construction and the last result has been dropped.
Idle == builder.type = "none" /\ call.op = "none"

\* The caller is done with the result of the last operation.
Drop ==
    /\ call.op # "none"
    /\ call' = NoCall
    /\ result' = NoResult
    /\ UNCHANGED builder

\* serde_json::from_value::<MultiTypeValue>(j)
MultiTypeValue_deserialize(j) ==
    /\ Idle
    /\ call' = [op |-> "MultiTypeValue::deserialize", arg |-> j]
    /\ result' = MultiTypeValueDeserialize(j)
    /\ UNCHANGED builder

\* serde_json::from_value::<Interaction>(j)
Interaction_deserialize(j) ==
    /\ Idle
    /\ call' = [op |-> "Interaction::deserialize", arg |-> j]
    /\ result' = InteractionDeserialize(j)
    /\ UNCHANGED builder

\* serde_json::from_value::<CommandData>(j)
CommandData_deserialize(j) ==
    /\ Idle
    /\ call' = [op |-> "CommandData::deserialize", arg |-> j]
    /\ result' = CommandDataDeserialize(j)
    /\ UNCHANGED builder

\* CommandOptionBuilder::new()
CommandOptionBuilder_new ==
    /\ Idle
    /\ builder' = CommandOptionBuilderNew
    /\ UNCHANGED <<call, result>>

\* A setter of a field build() demands: kind, name, description.
CommandOptionBuilder_set(field, value) ==
    /\ builder.type = "CommandOptionBuilder"
    /\ builder' = [builder EXCEPT ![field] = Some(value)]
    /\ UNCHANGED <<call, result>>

\* A setter of an optional field: required, min_value, max_value, min_length,
\* max_length, autocomplete.
CommandOptionBuilder_setOptional(field, value) ==
    /\ builder.type = "CommandOptionBuilder"
    /\ builder' = [builder EXCEPT ![field] = Some(value)]
    /\ UNCHANGED <<call, result>>

\* CommandOptionBuilder::choice and ::option: the item is pushed on the list,
\* which is created when there is none.
CommandOptionBuilder_push(field, item) ==
    /\ builder.type = "CommandOptionBuilder"
    /\ builder' = [builder EXCEPT ![field] = Push(builder[field], item)]
    /\ UNCHANGED <<call, result>>

\* CommandOption::serialize(&self) of the option that build() returned.
CommandOption_serialize ==
    /\ call.op = "CommandOptionBuilder::build"
    /\ IsOk(result)
    /\ call' = [op |-> "CommandOption::serialize", arg |-> result.Ok, from |-> call.arg]
    /\ result' = CommandOptionSerialize(result.Ok)
    /\ UNCHANGED builder

\* CommandOptionChoiceBuilder::new()
CommandOptionChoiceBuilder_new ==
    /\ Idle
    /\ builder' = CommandOptionChoiceBuilderNew
    /\ UNCHANGED <<call, result>>

\* CommandOptionChoiceBuilder::name and ::value
CommandOptionChoiceBuilder_set(field, value) ==
    /\ builder.type = "CommandOptionChoiceBuilder"
    /\ builder' = [builder EXCEPT ![field] = Some(value)]
    /\ UNCHANGED <<call, result>>

\* CommandOptionChoiceBuilder::build(self)
CommandOptionChoiceBuilder_build ==
    /\ builder.type = "CommandOptionChoiceBuilder"
    /\ call' = [op |-> "CommandOptionChoiceBuilder::build", arg |-> builder]
    /\ result' = CommandOptionChoiceBuilderBuild(builder)
    /\ builder' = NoBuilder

\* Choice::serialize(&self) of the choice that build() returned.
Choice_serialize ==
    /\ call.op = "CommandOptionChoiceBuilder::build"
    /\ IsOk(result)
    /\ call' = [op |-> "Choice::serialize", arg |-> result.Ok, from |-> call.arg]
    /\ result' = ChoiceSerialize(result.Ok)
    /\ UNCHANGED builder

\* CommandOptionBuilder::build(self): the builder is consumed.
CommandOptionBuilder_build ==
    /\ builder.type = "CommandOptionBuilder"
    /\ call' = [op |-> "CommandOptionBuilder::build", arg |-> builder]
    /\ result' = CommandOptionBuilderBuild(builder)
    /\ builder' = NoBuilder

\* CommandBuilder::new()
CommandBuilder_new ==
    /\ Idle
    /\ builder' = CommandBuilderNew
    /\ UNCHANGED <<call, result>>

\* CommandBuilder::name, kind, description
CommandBuilder_set(field, value) ==
    /\ builder.type = "CommandBuilder"
    /\ builder' = [builder EXCEPT ![field] = Some(value)]
    /\ UNCHANGED <<call, result>>

\* CommandBuilder::option: the option is pushed on the list, which is created
\* when there is none.
CommandBuilder_option(option) ==
    /\ builder.type = "CommandBuilder"
    /\ builder' = [builder EXCEPT !.options = Push(builder.options, option)]
    /\ UNCHANGED <<call, result>>

\* CommandBuilder::build(self)
CommandBuilder_build ==
    /\ builder.type = "CommandBuilder"
    /\ call' = [op |-> "CommandBuilder::build", arg |-> builder]
    /\ result' = CommandBuilderBuild(builder)
    /\ builder' = NoBuilder

\* Command::serialize(&self) of the command that build() returned.
Command_serialize ==
    /\ call.op = "CommandBuilder::build"
    /\ IsOk(result)
    /\ call' = [op |-> "Command::serialize", arg |-> result.Ok, from |-> call.arg]
    /\ result' = CommandSerialize(result.Ok)
    /\ UNCHANGED builder

\* The builder holds no more optional inputs than the budget after the step.
WithinBudget == OptionalCost(builder') <= MaxOptionalSet
CommandWithinBudget == ListCost(builder'.options) <= MaxOptionalSet

Next ==
    \/ \E j \in JsonScalars \cup JsonNonScalars : MultiTypeValue_deserialize(j)
    \/ \E j \in Envelopes : Interaction_deserialize(j)
    \/ \E j \in Payloads : CommandData_deserialize(j)
    \/ CommandOptionBuilder_new
    \/ \E k \in KindInputs : CommandOptionBuilder_set("kind", k)
    \/ \E f \in {"name", "description"}, x \in {"x"} : CommandOptionBuilder_set(f, x)
    \/ \E f \in {"required", "autocomplete"}, b \in BOOLEAN :
          CommandOptionBuilder_setOptional(f, b) /\ WithinBudget
    \/ \E f \in {"min_value", "max_value"}, v \in ChoiceValueInputs :
          CommandOptionBuilder_setOptional(f, v) /\ WithinBudget
    \/ \E f \in {"min_length", "max_length"}, v \in LengthInputs :
          CommandOptionBuilder_setOptional(f, v) /\ WithinBudget
    \/ \E cs \in Lists(BuiltChoices) : CommandOptionBuilder_setOptional("choices", cs) /\ WithinBudget
    \/ \E os \in Lists(BuiltOptions) : CommandOptionBuilder_setOptional("options", os) /\ WithinBudget
    \/ \E c \in BuiltChoices : CommandOptionBuilder_push("choices", c) /\ WithinBudget
    \/ \E o \in BuiltOptions : CommandOptionBuilder_push("options", o) /\ WithinBudget
    \/ CommandOptionBuilder_build
    \/ CommandOption_serialize
    \/ CommandOptionChoiceBuilder_new
    \/ CommandOptionChoiceBuilder_set("name", "x")
    \/ \E v \in ChoiceInputs : CommandOptionChoiceBuilder_set("value", v)
    \/ CommandOptionChoiceBuilder_build
    \/ Choice_serialize
    \/ CommandBuilder_new
    \/ \E k \in CommandKind : CommandBuilder_set("kind", k)
    \/ \E f \in {"name", "description"}, x \in StringInputs : CommandBuilder_set(f, x)
    \/ \E os \in Lists(BuiltOptions) : CommandBuilder_set("options", os)
    \/ \E o \in BuiltOptions : CommandBuilder_option(o) /\ CommandWithinBudget
    \/ CommandBuilder_build
    \/ Command_serialize
    \/ Drop

Spec == Init /\ [][Next]_vars

(***************************************************************************)
(* The builders run on the inputs of the "ping" command: a String or       *)
(* Integer option "msg", required or not, with lengths 0, 1 and 100, and a *)
(* ChatInput or User command "ping" with or without a description.         *)
(***************************************************************************)
PingOptions ==
    Built({CommandOptionBuilderBuild(
               [OptionBuilderOf(3, "msg") EXCEPT !.required = r, !.min_length = lo,
                                                 !.max_length = Some(Int32(100))]) :
           r \in {None, Some(TRUE)}, lo \in {None, Some(Int32(0))}})

NextPing ==
    \/ CommandOptionBuilder_new
    \/ \E k \in {3, 4} : CommandOptionBuilder_set("kind", k)
    \/ CommandOptionBuilder_set("name", "msg")
    \/ CommandOptionBuilder_set("description", "x")
    \/ CommandOptionBuilder_setOptional("required", TRUE)
    \/ \E n \in {0, 1} : CommandOptionBuilder_setOptional("min_length", Int32(n))
    \/ \E n \in {0, 100} : CommandOptionBuilder_setOptional("max_length", Int32(n))
    \/ CommandOptionBuilder_build
    \/ CommandOption_serialize
    \/ CommandBuilder_new
    \/ \E k \in {1, 2} : CommandBuilder_set("kind", k)
    \/ CommandBuilder_set("name", "ping")
    \/ CommandBuilder_set("description", "pong")
    \/ \E o \in PingOptions : CommandBuilder_option(o) /\ CommandWithinBudget
    \/ CommandBuilder_build
    \/ Command_serialize
    \/ Drop

SpecPing == Init /\ [][NextPing]_vars

(***************************************************************************)
(* The builders run on Int values made of 64-bit integers: a choice with   *)
(* an Int value, and an option with Int bounds.                            *)
(***************************************************************************)
\* The 64-bit integers: around 0, around 2^31 and -2^31, i64::MAX, i64::MIN.
I64IntInputs ==
    {U64(n) : n \in 0..Slack}
    \cup {SubSmall(MinusOne, d) : d \in 0..Slack}
    \cup {SubSmall(<<0, 0, 2 ^ 15, Slack>>, d) : d \in 0..(2 * Slack)}
    \cup {SubSmall(<<LimbBase - 1, LimbBase - 1, 2 ^ 15, Slack>>, d) : d \in 0..(2 * Slack)}
    \cup {I64_MAX, TwoTo63}

NextInt ==
    \/ CommandOptionChoiceBuilder_new
    \/ CommandOptionChoiceBuilder_set("name", "x")
    \/ \E x \in I64IntInputs : CommandOptionChoiceBuilder_set("value", ChoiceValueInt(x))
    \/ CommandOptionChoiceBuilder_build
    \/ Choice_serialize
    \/ CommandOptionBuilder_new
    \/ CommandOptionBuilder_set("kind", 4)
    \/ \E f \in {"name", "description"} : CommandOptionBuilder_set(f, "x")
    \/ \E f \in {"min_value", "max_value"}, x \in I64IntInputs :
          CommandOptionBuilder_setOptional(f, ChoiceValueInt(x))
    \/ CommandOptionBuilder_build
    \/ CommandOption_serialize
    \/ Drop

SpecInt == Init /\ [][NextInt]_vars

(***************************************************************************)
(* The state machine of the response side: the builders of the components  *)
(* and of the message, and the encoders.                                   *)
(***************************************************************************)
\* What a build() that cannot fail returned.
Returned(v) == [returned |-> v]

\* TextInputBuilder::new()
TextInputBuilder_new ==
    /\ Idle
    /\ builder' = TextInputBuilderNew
    /\ UNCHANGED <<call, result>>

\* TextInputBuilder::custom_id, style, label, min_length, max_length, value,
\* placeholder, and required(), which sets true.
TextInputBuilder_set(field, value) ==
    /\ builder.type = "TextInputBuilder"
    /\ builder' = [builder EXCEPT ![field] = Some(value)]
    /\ UNCHANGED <<call, result>>

\* TextInputBuilder::build(self)
TextInputBuilder_build ==
    /\ builder.type = "TextInputBuilder"
    /\ call' = [op |-> "TextInputBuilder::build", arg |-> builder]
    /\ result' = TextInputBuilderBuild(builder)
    /\ builder' = NoBuilder

\* ButtonComponentBuilder::new()
ButtonComponentBuilder_new ==
    /\ Idle
    /\ builder' = ButtonComponentBuilderNew
    /\ UNCHANGED <<call, result>>

\* ButtonComponentBuilder::style, label, custom_id, url, and disabled(), which
\* sets true.
ButtonComponentBuilder_set(field, value) ==
    /\ builder.type = "ButtonComponentBuilder"
    /\ builder' = [builder EXCEPT ![field] = Some(value)]
    /\ UNCHANGED <<call, result>>

\* ButtonComponentBuilder::build(self)
ButtonComponentBuilder_build ==
    /\ builder.type = "ButtonComponentBuilder"
    /\ call' = [op |-> "ButtonComponentBuilder::build", arg |-> builder]
    /\ result' = ButtonComponentBuilderBuild(builder)
    /\ builder' = NoBuilder

\* SelectMenuOptionBuilder::new()
SelectMenuOptionBuilder_new ==
    /\ Idle
    /\ builder' = SelectMenuOptionBuilderNew
    /\ UNCHANGED <<call, result>>

\* SelectMenuOptionBuilder::label, value, description, default
SelectMenuOptionBuilder_set(field, value) ==
    /\ builder.type = "SelectMenuOptionBuilder"
    /\ builder' = [builder EXCEPT ![field] = Some(value)]
    /\ UNCHANGED <<call, result>>

\* SelectMenuOptionBuilder::build(self)
SelectMenuOptionBuilder_build ==
    /\ builder.type = "SelectMenuOptionBuilder"
    /\ call' = [op |-> "SelectMenuOptionBuilder::build", arg |-> builder]
    /\ result' = SelectMenuOptionBuilderBuild(builder)
    /\ builder' = NoBuilder

\* SelectMenuBuilder::new()
SelectMenuBuilder_new ==
    /\ Idle
    /\ builder' = SelectMenuBuilderNew
    /\ UNCHANGED <<call, result>>

\* SelectMenuBuilder::custom_id, options, placeholder, and disabled(), which
\* sets true.
SelectMenuBuilder_set(field, value) ==
    /\ builder.type = "SelectMenuBuilder"
    /\ builder' = [builder EXCEPT ![field] = Some(value)]
    /\ UNCHANGED <<call, result>>

\* SelectMenuBuilder::option: the option is pushed on the list, which is created
\* when there is none.
SelectMenuBuilder_option(item) ==
    /\ builder.type = "SelectMenuBuilder"
    /\ builder' = [builder EXCEPT !.options = Push(builder.options, item)]
    /\ UNCHANGED <<call, result>>

\* SelectMenuBuilder::build(self)
SelectMenuBuilder_build ==
    /\ builder.type = "SelectMenuBuilder"
    /\ call' = [op |-> "SelectMenuBuilder::build", arg |-> builder]
    /\ result' = SelectMenuBuilderBuild(builder)
    /\ builder' = NoBuilder

\* ActionRowBuilder::new()
ActionRowBuilder_new ==
    /\ Idle
    /\ builder' = ActionRowBuilderNew
    /\ UNCHANGED <<call, result>>

\* ActionRowBuilder::components: the list is replaced.
ActionRowBuilder_set(field, value) ==
    /\ builder.type = "ActionRowBuilder"
    /\ builder' = [builder EXCEPT ![field] = value]
    /\ UNCHANGED <<call, result>>

\* ActionRowBuilder::component: the component is pushed on the list.
ActionRowBuilder_component(item) ==
    /\ builder.type = "ActionRowBuilder"
    /\ builder' = [builder EXCEPT !.components = Append(builder.components, item)]
    /\ UNCHANGED <<call, result>>

\* ActionRowBuilder::build(self)
ActionRowBuilder_build ==
    /\ builder.type = "ActionRowBuilder"
    /\ call' = [op |-> "ActionRowBuilder::build", arg |-> builder]
    /\ result' = Returned(ActionRowBuilderBuild(builder))
    /\ builder' = NoBuilder

\* MessageBuilder::new()
MessageBuilder_new ==
    /\ Idle
    /\ builder' = MessageBuilderNew
    /\ UNCHANGED <<call, result>>

\* MessageBuilder::content, flags, components, and tts(), which sets true.
MessageBuilder_set(field, value) ==
    /\ builder.type = "MessageBuilder"
    /\ builder' = [builder EXCEPT ![field] = Some(value)]
    /\ UNCHANGED <<call, result>>

\* MessageBuilder::component: the component is pushed on the list, which is created
\* when there is none.
MessageBuilder_component(item) ==
    /\ builder.type = "MessageBuilder"
    /\ builder' = [builder EXCEPT !.components = Push(builder.components, item)]
    /\ UNCHANGED <<call, result>>

\* MessageBuilder::build(self)
MessageBuilder_build ==
    /\ builder.type = "MessageBuilder"
    /\ call' = [op |-> "MessageBuilder::build", arg |-> builder]
    /\ result' = Returned(MessageBuilderBuild(builder))
    /\ builder' = NoBuilder

\* The value the last build() returned.
BuiltBy(T) ==
    /\ call.op = T
    /\ IsOk(result) \/ "returned" \in DOMAIN result
LastBuilt == IF IsOk(result) THEN result.Ok ELSE result.returned

\* The variants of MessageComponent that hold what the builder T builds.
VariantsOf(T) ==
    CASE T = "ActionRowBuilder::build" -> {"ActionRow"}
      [] T = "ButtonComponentBuilder::build" -> {"Button"}
      [] T = "TextInputBuilder::build" -> {"TextInput"}
      [] T = "SelectMenuBuilder::build" ->
            {"StringSelect", "UserSelect", "RoleSelect", "MentionableSelect", "ChannelSelect"}
      [] OTHER -> {}

\* MessageComponent::serialize(&self) of the variant made of the value that
\* build() returned.
MessageComponent_serialize(variant) ==
    /\ BuiltBy(call.op)
    /\ variant \in VariantsOf(call.op)
    /\ call' = [op |-> "MessageComponent::serialize", arg |-> (variant :> LastBuilt),
                from |-> call.arg]
    /\ result' = MessageComponentSerialize(variant :> LastBuilt)
    /\ UNCHANGED builder

\* TextInput::serialize(&self) of the text input that build() returned.
TextInput_serialize ==
    /\ BuiltBy("TextInputBuilder::build")
    /\ call' = [op |-> "TextInput::serialize", arg |-> LastBuilt, from |-> call.arg]
    /\ result' = TextInputSerialize(LastBuilt)
    /\ UNCHANGED builder

\* SelectMenuOption::serialize(&self) of the option that build() returned.
SelectMenuOption_serialize ==
    /\ BuiltBy("SelectMenuOptionBuilder::build")
    /\ call' = [op |-> "SelectMenuOption::serialize", arg |-> LastBuilt, from |-> call.arg]
    /\ result' = SelectMenuOptionSerialize(LastBuilt)
    /\ UNCHANGED builder

\* Message::serialize(&self) of the message that build() returned.
Message_serialize ==
    /\ BuiltBy("MessageBuilder::build")
    /\ call' = [op |-> "Message::serialize", arg |-> LastBuilt, from |-> call.arg]
    /\ result' = MessageSerialize(LastBuilt)
    /\ UNCHANGED builder

\* InteractionResponse::serialize(&self)
InteractionResponse_serialize(response) ==
    /\ Idle
    /\ call' = [op |-> "InteractionResponse::serialize", arg |-> response]
    /\ result' = InteractionResponseSerialize(response)
    /\ UNCHANGED builder

\* The responses that are encoded.
ResponseInputs ==
    {[Pong |-> TRUE], [DeferResponse |-> TRUE]}
    \cup {[Message |-> m] : m \in BuiltMessages}
    \cup {[DeferredUpdateMessage |-> m] : m \in BuiltMessages}
    \cup {[UpdateMessage |-> m] : m \in BuiltMessages}
    \cup {[Autocomplete |-> a] : a \in PayloadInputs}
    \cup {[Modal |-> a] : a \in PayloadInputs}

\* The builder holds no more optional inputs than the budget after the step.
ResponseWithinBudget == BuilderCost(builder') <= MaxOptionalSet

NextResponse ==
    \/ TextInputBuilder_new
    \/ TextInputBuilder_set("custom_id", "id")
    \/ \E st \in TextInputStyle : TextInputBuilder_set("style", st)
    \/ \E l \in LabelInputs : TextInputBuilder_set("label", l)
    \/ \E f \in {"min_length", "max_length"}, n \in U16Inputs :
          TextInputBuilder_set(f, n) /\ ResponseWithinBudget
    \/ TextInputBuilder_set("required", TRUE) /\ ResponseWithinBudget
    \/ \E f \in {"value", "placeholder"} : TextInputBuilder_set(f, "t") /\ ResponseWithinBudget
    \/ TextInputBuilder_build
    \/ TextInput_serialize
    \/ ButtonComponentBuilder_new
    \/ \E st \in ButtonStyle : ButtonComponentBuilder_set("style", st)
    \/ \E f \in {"label", "custom_id", "url"} :
          ButtonComponentBuilder_set(f, "b") /\ ResponseWithinBudget
    \/ ButtonComponentBuilder_set("disabled", TRUE) /\ ResponseWithinBudget
    \/ ButtonComponentBuilder_build
    \/ SelectMenuOptionBuilder_new
    \/ \E f \in {"label", "value"} : SelectMenuOptionBuilder_set(f, "o")
    \/ \E f \in {"description", "default"} :
          SelectMenuOptionBuilder_set(f, "d") /\ ResponseWithinBudget
    \/ SelectMenuOptionBuilder_build
    \/ SelectMenuOption_serialize
    \/ SelectMenuBuilder_new
    \/ SelectMenuBuilder_set("custom_id", "id")
    \/ SelectMenuBuilder_set("placeholder", "p") /\ ResponseWithinBudget
    \/ SelectMenuBuilder_set("disabled", TRUE) /\ ResponseWithinBudget
    \/ \E os \in Lists(BuiltSelectMenuOptions) :
          SelectMenuBuilder_set("options", os) /\ ResponseWithinBudget
    \/ \E o \in BuiltSelectMenuOptions : SelectMenuBuilder_option(o) /\ ResponseWithinBudget
    \/ SelectMenuBuilder_build
    \/ ActionRowBuilder_new
    \/ \E cs \in Lists(BuiltComponents) : ActionRowBuilder_set("components", cs)
    \/ \E c \in BuiltComponents : ActionRowBuilder_component(c) /\ ResponseWithinBudget
    \/ ActionRowBuilder_build
    \/ MessageBuilder_new
    \/ MessageBuilder_set("tts", TRUE) /\ ResponseWithinBudget
    \/ MessageBuilder_set("content", "hi") /\ ResponseWithinBudget
    \/ \E f \in FlagsInputs : MessageBuilder_set("flags", f) /\ ResponseWithinBudget
    \/ \E cs \in Lists(BuiltComponents) :
          MessageBuilder_set("components", cs) /\ ResponseWithinBudget
    \/ \E c \in BuiltComponents : MessageBuilder_component(c) /\ ResponseWithinBudget
    \/ MessageBuilder_build
    \/ Message_serialize
    \/ \E v \in {"ActionRow", "Button", "TextInput", "StringSelect", "UserSelect", "RoleSelect",
                 "MentionableSelect", "ChannelSelect"} : MessageComponent_serialize(v)
    \/ \E r \in ResponseInputs : InteractionResponse_serialize(r)
    \/ Drop

SpecResponse == Init /\ [][NextResponse]_vars

(***************************************************************************)
(* The state machine of the decoded option tree: a node or a top-level     *)
(* command payload is decoded, and option(name) is called on what was      *)
(* decoded and on the nodes option(name) returned.                         *)
(***************************************************************************)
\* The values of the `type` key of a node: integers around 1 and around 11,
\* and values that are no unsigned integer.
NodeTypeInputs ==
    {JNum(n) : n \in (0..(1 + Slack)) \cup ((11 - Slack)..(11 + Slack))}
    \cup {JStr("3"), JNeg(MinusOne), JFloat(F64(FALSE, <<0, 0, 0, 0, 3>>, FALSE)), JNull}

\* Nodes without children that decode: two that share the name "a", a name
\* in another case, a node given as an array.
GoodLeaves ==
    {JObj([name |-> JStr("a"), type |-> JNum(3), value |-> JStr("x")]),
     JObj([name |-> JStr("a"), type |-> JNum(4), value |-> JNum(5)]),
     JObj([name |-> JStr("b"), type |-> JNum(5), value |-> JBool(TRUE), focused |-> JBool(TRUE)]),
     JObj([name |-> JStr("A"), type |-> JNum(3)]),
     JArr(<<JStr("s"), JNum(1), JNull, JNull, JNull>>)}

\* Nodes without children that do not decode.
BadLeaves ==
    {JObj([name |-> JStr("c")]),
     JObj([type |-> JNum(3)]),
     JObj([name |-> JNum(5), type |-> JNum(3)]),
     JObj([name |-> JNull, type |-> JNum(3)]),
     JObj([name |-> JStr("c"), type |-> JNum(3), value |-> JArr(<<>>)]),
     JObj([name |-> JStr("c"), type |-> JNum(3), value |-> JObj(<<>>)]),
     JObj([name |-> JStr("c"), type |-> JNum(3), focused |-> JStr("yes")]),
     JObj([name |-> JStr("c"), type |-> JNum(3), focused |-> JNum(1)]),
     JObj([name |-> JStr("c"), type |-> JNum(3), options |-> JObj(<<>>)]),
     JObj([name |-> JStr("c"), type |-> JNum(3), options |-> JStr("x")]),
     JArr(<<JStr("s"), JNum(1)>>),
     JArr(<<JStr("s"), JNum(1), JNull, JNull, JNull, JNull>>),
     JArr(<<JNum(1), JStr("s"), JNull, JNull, JNull>>),
     JStr("c"), JNull, JBool(TRUE), JNum(3)}

\* The children a node is given.
ChildInputs ==
    GoodLeaves \cup {JObj([name |-> JStr("c")]), JArr(<<JStr("s"), JNum(1)>>)}

\* The child lists: of no, one and two children.
ChildLists ==
    {<<>>} \cup {<<x>> : x \in ChildInputs} \cup {<<x, y>> : x, y \in ChildInputs}

\* Nodes with children, with and without a value of their own.
Groups ==
    {JObj([name |-> JStr("g"), type |-> JNum(2), options |-> JArr(l)]) : l \in ChildLists}
    \cup {JObj([name |-> JStr("g"), type |-> JNum(3), value |-> JStr("x"),
                options |-> JArr(l)]) : l \in {<<x>> : x \in ChildInputs}}

\* Nodes whose children have children.
DeepNodes ==
    {JObj([name |-> JStr("top"), type |-> JNum(1), options |-> JArr(<<g, l>>)]) :
        g \in {JObj([name |-> JStr("g"), type |-> JNum(2), options |-> JArr(<<x, y>>)]) :
                  x \in {JObj([name |-> JStr("a"), type |-> JNum(3), value |-> JStr("x")])},
                  y \in {JObj([name |-> JStr("a"), type |-> JNum(4), value |-> JNum(5)]),
                         JObj([name |-> JStr("c")])}},
        l \in {JObj([name |-> JStr("g"), type |-> JNum(4), value |-> JNum(5)]),
               JObj([name |-> JStr("b"), type |-> JNum(12)])}}

\* The nodes that are decoded.
NodeInputs ==
    {JObj([name |-> JStr("n"), type |-> t]) : t \in NodeTypeInputs}
    \cup {JObj([name |-> JStr("n"), type |-> JNum(3), value |-> v]) :
             v \in {JNull, JStr(""), JBool(FALSE), JNum(0), JNeg(MinusOne), JPos(U64_MAX),
                    JFloat(F64(FALSE, <<0, 0, 0, 0, 1>>, TRUE))}}
    \cup {JObj([name |-> JStr("n"), type |-> JNum(3), value |-> JNull, options |-> JNull,
                focused |-> JNull, extra |-> JNum(1)])}
    \cup GoodLeaves \cup BadLeaves \cup Groups \cup DeepNodes

\* The top-level command payloads that are decoded.
TopInputs ==
    {JObj([id |-> JNum(7), name |-> JStr("cmd"), type |-> JNum(1), options |-> JArr(l)]) :
        l \in ChildLists}
    \cup {JObj([id |-> JNum(7), name |-> JStr("cmd"), type |-> JNum(1), options |-> JArr(<<g>>)]) :
             g \in DeepNodes}
    \cup {JObj([id |-> JNum(7), name |-> JStr("cmd"), type |-> JNum(1)]),
          JObj([id |-> JNum(7), name |-> JStr("cmd"), type |-> JNum(1), options |-> JNull])}

\* The names that are looked up.
NameInputs == {"a", "A", "b", "g", "s", "top", "ab", ""}

\* serde_json::from_value::<CommandInteractionData>(j)
CommandInteractionData_deserialize(j) ==
    /\ Idle
    /\ call' = [op |-> "CommandInteractionData::deserialize", arg |-> j]
    /\ result' = CommandInteractionDataDeserialize(j)
    /\ UNCHANGED builder

\* CommandData::option(&self, name) of the payload that was decoded.
CommandData_option(name) ==
    /\ call.op = "CommandData::deserialize"
    /\ IsOk(result)
    /\ call' = [op |-> "CommandData::option", self |-> result.Ok, arg |-> name]
    /\ result' = CommandDataOption(result.Ok, name)
    /\ UNCHANGED builder

\* A node is at hand: the one that was decoded, or the one option() returned.
NodeAtHand ==
    \/ call.op = "CommandInteractionData::deserialize" /\ IsOk(result)
    \/ call.op \in {"CommandData::option", "CommandInteractionData::option"} /\ IsSome(result)
TheNode == IF IsOk(result) THEN result.Ok ELSE result.some

\* CommandInteractionData::option(&self, name) of the node at hand.
CommandInteractionData_option(name) ==
    /\ NodeAtHand
    /\ call' = [op |-> "CommandInteractionData::option", self |-> TheNode, arg |-> name]
    /\ result' = CommandInteractionDataOption(TheNode, name)
    /\ UNCHANGED builder

NextTree ==
    \/ \E j \in NodeInputs : CommandInteractionData_deserialize(j)
    \/ \E j \in TopInputs : CommandData_deserialize(j)
    \/ \E n \in NameInputs : CommandData_option(n)
    \/ \E n \in NameInputs : CommandInteractionData_option(n)
    \/ Drop

SpecTree == Init /\ [][NextTree]_vars

(***************************************************************************)
(* The builders that hold a list, run on sequences of their single-item    *)
(* and whole-list setters: Command, CommandOption, SelectMenu, ActionRow   *)
(* and Message.                                                            *)
(***************************************************************************)
\* The longest list a builder is given.
MaxListLen == 3

\* The items: two choices, two options, two select-menu options, two
\* components.
ItemChoices == {c \in BuiltChoices : ~IsString(c.value)}
ItemOptions == BuiltLeafOptions
ItemSelectMenuOptions == BuiltSelectMenuOptions
ItemComponents == {c \in BuiltLeafComponents : "Button" \in DOMAIN c}

\* The lists given to the whole-list setters: of no, one and two items.
WholeLists(items) ==
    {<<>>} \cup {<<x>> : x \in items} \cup {<<x, y>> : x, y \in items}

\* The list a builder field holds, the empty one when it holds none.
ListOf(o) == IF IsSome(o) THEN o.some ELSE <<>>

\* No list of the builder is longer than the bound after the step.
ListsWithin ==
    IF builder'.type = "ActionRowBuilder" THEN Len(builder'.components) <= MaxListLen
    ELSE \A f \in {"choices", "options", "components"} \cap DOMAIN builder' :
            Len(ListOf(builder'[f])) <= MaxListLen

NextLists ==
    \/ CommandBuilder_new
    \/ CommandBuilder_set("kind", 1)
    \/ \E x \in {"x", "y"} : CommandBuilder_set("name", x)
    \/ \E os \in WholeLists(ItemOptions) : CommandBuilder_set("options", os)
    \/ \E o \in ItemOptions : CommandBuilder_option(o) /\ ListsWithin
    \/ CommandBuilder_build
    \/ Command_serialize
    \/ CommandOptionBuilder_new
    \/ CommandOptionBuilder_set("kind", 1)
    \/ CommandOptionBuilder_set("name", "x")
    \/ \E x \in {"x", "y"} : CommandOptionBuilder_set("description", x)
    \/ \E cs \in WholeLists(ItemChoices) : CommandOptionBuilder_setOptional("choices", cs)
    \/ \E os \in WholeLists(ItemOptions) : CommandOptionBuilder_setOptional("options", os)
    \/ \E c \in ItemChoices : CommandOptionBuilder_push("choices", c) /\ ListsWithin
    \/ \E o \in ItemOptions : CommandOptionBuilder_push("options", o) /\ ListsWithin
    \/ CommandOptionBuilder_build
    \/ CommandOption_serialize
    \/ SelectMenuBuilder_new
    \/ SelectMenuBuilder_set("custom_id", "id")
    \/ \E x \in {"p", "q"} : SelectMenuBuilder_set("placeholder", x)
    \/ \E os \in WholeLists(ItemSelectMenuOptions) : SelectMenuBuilder_set("options", os)
    \/ \E o \in ItemSelectMenuOptions : SelectMenuBuilder_option(o) /\ ListsWithin
    \/ SelectMenuBuilder_build
    \/ ActionRowBuilder_new
    \/ \E cs \in WholeLists(ItemComponents) : ActionRowBuilder_set("components", cs)
    \/ \E c \in ItemComponents : ActionRowBuilder_component(c) /\ ListsWithin
    \/ ActionRowBuilder_build
    \/ MessageBuilder_new
    \/ \E x \in {"hi", "ho"} : MessageBuilder_set("content", x)
    \/ \E cs \in WholeLists(ItemComponents) : MessageBuilder_set("components", cs)
    \/ \E c \in ItemComponents : MessageBuilder_component(c) /\ ListsWithin
    \/ MessageBuilder_build
    \/ Message_serialize
    \/ \E v \in {"ActionRow", "StringSelect"} : MessageComponent_serialize(v)
    \/ Drop

SpecLists == Init /\ [][NextLists]_vars

(***************************************************************************)
(* What the properties say about an input, stated on the JSON itself.      *)
(***************************************************************************)
\* j is an envelope object whose `type` is the natural n.
TypeIs(j, n) ==
    /\ "obj" \in DOMAIN j
    /\ "type" \in DOMAIN j.obj
    /\ "u64" \in DOMAIN j.obj.type
    /\ j.obj.type.u64 = U64(n)

\* j is an envelope object whose `type` is an integer.
TypeIsInteger(j) ==
    /\ "obj" \in DOMAIN j
    /\ "type" \in DOMAIN j.obj
    /\ ("u64" \in DOMAIN j.obj.type \/ "i64" \in DOMAIN j.obj.type)

\* The envelope object j holds a payload: a `data` key that is not null.
HasData(j) ==
    /\ "obj" \in DOMAIN j
    /\ "data" \in DOMAIN j.obj
    /\ "null" \notin DOMAIN j.obj.data

\* The natural a sequence of decimal digits denotes.
RECURSIVE DecimalValue(_)
DecimalValue(ds) ==
    IF ds = <<>> THEN 0
    ELSE 10 * DecimalValue(SubSeq(ds, 1, Len(ds) - 1)) + ds[Len(ds)]

IsScalarJson(j) == DOMAIN j \cap {"str", "bool", "u64", "i64", "f64"} # {}

\* j is an unsigned integer, one of ns.
IsNatIn(j, ns) ==
    /\ "u64" \in DOMAIN j
    /\ j.u64[1] = 0 /\ j.u64[2] = 0 /\ j.u64[3] = 0
    /\ j.u64[4] \in ns

\* Key k of the object o is absent, null, or satisfies P.
Optional(o, k, P(_)) == k \in DOMAIN o => ("null" \in DOMAIN o[k] \/ P(o[k]))

IsStrJson(j) == "str" \in DOMAIN j
IsBoolJson(j) == "bool" \in DOMAIN j
IsU64Json(j) == "u64" \in DOMAIN j

\* j is an object that has the shape of a tree node.
RECURSIVE IsNode(_)
IsNodeList(j) == "arr" \in DOMAIN j /\ \A i \in 1..Len(j.arr) : IsNode(j.arr[i])
IsNode(j) ==
    /\ "obj" \in DOMAIN j
    /\ "name" \in DOMAIN j.obj /\ IsStrJson(j.obj.name)
    /\ "type" \in DOMAIN j.obj /\ IsNatIn(j.obj.type, 1..11)
    /\ Optional(j.obj, "value", IsScalarJson)
    /\ Optional(j.obj, "options", IsNodeList)
    /\ Optional(j.obj, "focused", IsBoolJson)

\* j is an object that has the shape of a top-level command payload.
IsTopLevel(j) ==
    /\ "obj" \in DOMAIN j
    /\ "id" \in DOMAIN j.obj /\ IsU64Json(j.obj.id)
    /\ "name" \in DOMAIN j.obj /\ IsStrJson(j.obj.name)
    /\ "type" \in DOMAIN j.obj /\ IsNatIn(j.obj.type, 1..4)
    /\ Optional(j.obj, "options", IsNodeList)
    /\ Optional(j.obj, "guild_id", IsU64Json)
    /\ Optional(j.obj, "target_id", IsU64Json)

DecodedEnvelope == call.op = "Interaction::deserialize"

\* The decoded envelope is the variant v.
Yields(v) == IsOk(result) /\ result.Ok.variant = v

(***************************************************************************)
(* C1: decoding an envelope dispatches on `type` alone: 1 yields Ping, 3   *)
(* MessageComponent, 4 CommandAutocomplete, 5 ModalSubmit (spelled         *)
(* ModalSumbit in the source) whatever `data` is, absent or present; 2     *)
(* with a well-formed payload yields Command.                              *)
(***************************************************************************)
C1_DispatchOnType ==
    DecodedEnvelope =>
        /\ TypeIs(call.arg, 1) => Yields("Ping")
        /\ TypeIs(call.arg, 3) => Yields("MessageComponent")
        /\ TypeIs(call.arg, 4) => Yields("CommandAutocomplete")
        /\ TypeIs(call.arg, 5) => Yields("ModalSumbit")
        /\ (TypeIs(call.arg, 2) /\ HasData(call.arg)
              /\ (IsNode(call.arg.obj.data) \/ IsTopLevel(call.arg.obj.data)))
           => Yields("Command")

\* An envelope of type 3 with a payload that is no command payload was decoded
\* to MessageComponent.
C1_Witness ==
    /\ DecodedEnvelope
    /\ TypeIs(call.arg, 3)
    /\ HasData(call.arg)
    /\ ~IsNode(call.arg.obj.data)
    /\ Yields("MessageComponent")

(***************************************************************************)
(* C2, as stated: every integer discriminant outside 1..5, those that do   *)
(* not fit one byte included, fails with the unknown-variant error, which  *)
(* carries the discriminant.                                               *)
(***************************************************************************)
C2_Original ==
    (/\ DecodedEnvelope
     /\ TypeIsInteger(call.arg)
     /\ \A n \in 1..5 : ~TypeIs(call.arg, n))
    => /\ IsErr(result)
       /\ "unknown_variant" \in DOMAIN result.Err
       /\ JPos(U64(DecimalValue(result.Err.unknown_variant[1]))) = call.arg.obj.type

(***************************************************************************)
(* C2, amended: every discriminant in 0..255 outside 1..5 fails with the   *)
(* unknown-variant error carrying its value; an integer that does not fit  *)
(* one byte fails while the discriminant is read, with the invalid-value   *)
(* error of the integer, which carries it too.                             *)
(***************************************************************************)
C2_UnknownDiscriminant ==
    (DecodedEnvelope /\ TypeIsInteger(call.arg)) =>
        /\ \A n \in (0..U8_MAX) \ (1..5) :
              TypeIs(call.arg, n) =>
                  /\ IsErr(result)
                  /\ "unknown_variant" \in DOMAIN result.Err
                  /\ DecimalValue(result.Err.unknown_variant[1]) = n
        /\ ~IsNatIn(call.arg.obj.type, 0..U8_MAX) =>
              /\ IsErr(result)
              /\ "invalid_value" \in DOMAIN result.Err
              /\ result.Err.invalid_value = call.arg.obj.type

\* Discriminant 6 was decoded to the unknown-variant error of "6".
C2_Witness ==
    /\ DecodedEnvelope
    /\ TypeIs(call.arg, 6)
    /\ IsErr(result)
    /\ "unknown_variant" \in DOMAIN result.Err
    /\ result.Err.unknown_variant[1] = <<6>>

(***************************************************************************)
(* The three ways an envelope of a known or unknown kind fails.            *)
(***************************************************************************)
\* Kind 2 without a payload: no `data` key, or a null one.
MissingPayload(j) == TypeIs(j, 2) /\ ~HasData(j)

\* Kind 2 with a payload that its decoder refuses.
MalformedPayload(j) ==
    /\ TypeIs(j, 2)
    /\ HasData(j)
    /\ IsErr(CommandInteractionDataDeserialize(j.obj.data))

\* A kind of one byte that is none of 1..5.
UnknownKind(j) == \E n \in (0..U8_MAX) \ (1..5) : TypeIs(j, n)

ErrorClass(j) ==
    IF MissingPayload(j) THEN "missing"
    ELSE IF MalformedPayload(j) THEN "malformed"
    ELSE IF UnknownKind(j) THEN "unknown"
    ELSE "none"

(***************************************************************************)
(* C3: an envelope of kind 2 without a payload fails with the              *)
(* missing-payload error, and the errors of the three classes (missing     *)
(* payload, malformed payload, unknown kind) are pairwise different: no    *)
(* envelope of another class yields the error this one did.                *)
(***************************************************************************)
C3_DistinctErrors ==
    DecodedEnvelope =>
        /\ MissingPayload(call.arg) => result = Err(Custom(NoDataMsg))
        /\ ErrorClass(call.arg) # "none" =>
              /\ IsErr(result)
              /\ \A e \in Envelopes :
                    ErrorClass(e) \notin {"none", ErrorClass(call.arg)}
                    => InteractionDeserialize(e) # result

\* An envelope of kind 2 without `data` was decoded to the missing-payload error.
C3_Witness ==
    /\ DecodedEnvelope
    /\ TypeIs(call.arg, 2)
    /\ "data" \notin DOMAIN call.arg.obj
    /\ result = Err(Custom(NoDataMsg))

(***************************************************************************)
(* C4, as stated: an envelope of kind 2 whose payload is a top-level       *)
(* command payload yields a Command that carries the command's id, its     *)
(* guild id and its target id, with `type` read as a command kind: the     *)
(* value CommandData decodes from the payload.                             *)
(***************************************************************************)
C4_CommandCarriesIds ==
    (/\ DecodedEnvelope
     /\ TypeIs(call.arg, 2)
     /\ HasData(call.arg)
     /\ IsTopLevel(call.arg.obj.data))
    => /\ Yields("Command")
       /\ {"id", "guild_id", "target_id"} \subseteq DOMAIN result.Ok.data
       /\ Ok(result.Ok.data) = CommandDataDeserialize(call.arg.obj.data)

(***************************************************************************)
(* C5: every envelope decode ends in one outcome, a whole envelope value   *)
(* or an error; an envelope of kind 2 whose payload does not decode yields *)
(* an error, and a Command holds all of what its payload decoded to.       *)
(***************************************************************************)
Variants == {"Ping", "Command", "MessageComponent", "CommandAutocomplete", "ModalSumbit"}

C5_OneOutcome ==
    DecodedEnvelope =>
        /\ DOMAIN result \in {{"Ok"}, {"Err"}}
        /\ IsOk(result) =>
              /\ result.Ok.variant \in Variants
              /\ DOMAIN result.Ok =
                    IF result.Ok.variant = "Command" THEN {"variant", "data"} ELSE {"variant"}
              /\ result.Ok.variant = "Command" =>
                    /\ TypeIs(call.arg, 2) \/ "arr" \in DOMAIN call.arg
                    /\ "obj" \in DOMAIN call.arg =>
                          /\ HasData(call.arg)
                          /\ Ok(result.Ok.data) =
                                CommandInteractionDataDeserialize(call.arg.obj.data)
        /\ MalformedPayload(call.arg) => IsErr(result)

\* An envelope of kind 2 with a payload that lacks `type` was decoded to an error.
C5_Witness ==
    /\ DecodedEnvelope
    /\ MalformedPayload(call.arg)
    /\ "type" \notin DOMAIN call.arg.obj.data
    /\ IsErr(result)

(***************************************************************************)
(* C6: the scalar decode maps a string to String, a boolean to Boolean, a  *)
(* signed integer to Integer, a float to Double, an unsigned integer v to  *)
(* Integer(v) when v <= 2^63 - 1 and to Double when v >= 2^63; every       *)
(* number decodes.                                                         *)
(***************************************************************************)
DecodedScalar == call.op = "MultiTypeValue::deserialize"

C6_ScalarVariants ==
    DecodedScalar =>
        /\ "str" \in DOMAIN call.arg => result = Ok([String |-> call.arg.str])
        /\ "bool" \in DOMAIN call.arg => result = Ok([Boolean |-> call.arg.bool])
        /\ "i64" \in DOMAIN call.arg => result = Ok([Integer |-> call.arg.i64])
        /\ "f64" \in DOMAIN call.arg => result = Ok([Double |-> call.arg.f64])
        /\ ("u64" \in DOMAIN call.arg /\ call.arg.u64[1] < 2 ^ 15)
           => result = Ok([Integer |-> call.arg.u64])
        /\ ("u64" \in DOMAIN call.arg /\ call.arg.u64[1] >= 2 ^ 15)
           => IsOk(result) /\ "Double" \in DOMAIN result.Ok
        /\ call.arg = JPos(TwoTo63)
           => result = Ok([Double |-> F64(FALSE, <<0, 2 ^ 15, 0, 0, 0>>, FALSE)])

\* 2^63 was decoded to a Double.
C6_Witness ==
    /\ DecodedScalar
    /\ call.arg = JPos(TwoTo63)
    /\ IsOk(result)
    /\ "Double" \in DOMAIN result.Ok

(***************************************************************************)
(* C7: the scalar decode fails with the invalid-type error for an array,   *)
(* an object and null, and yields no value for them.                       *)
(***************************************************************************)
C7_NonScalarFails ==
    (DecodedScalar /\ DOMAIN call.arg \cap {"arr", "obj", "null"} # {})
    => /\ IsErr(result)
       /\ "invalid_type" \in DOMAIN result.Err

\* null was decoded to the invalid-type error.
C7_Witness ==
    /\ DecodedScalar
    /\ call.arg = JNull
    /\ IsErr(result)
    /\ "invalid_type" \in DOMAIN result.Err

(***************************************************************************)
(* The builds.                                                             *)
(***************************************************************************)
BuiltOption == call.op = "CommandOptionBuilder::build"
BuiltCommand == call.op = "CommandBuilder::build"

\* The fields build() demands are all set on the builder b.
RequiredSet(b) == IsSome(b.kind) /\ IsSome(b.name) /\ IsSome(b.description)

(***************************************************************************)
(* C8: CommandOption build() fails whenever kind, name or description is   *)
(* unset, Command build() fails exactly when name or kind is unset; a      *)
(* built value holds the kind, name and description given, an unset        *)
(* Command description being the empty string.                             *)
(***************************************************************************)
C8_PresenceChecks ==
    /\ BuiltOption =>
          /\ ~RequiredSet(call.arg) => IsErr(result)
          /\ IsOk(result) =>
                /\ RequiredSet(call.arg)
                /\ result.Ok.kind = call.arg.kind.some
                /\ result.Ok.name = call.arg.name.some
                /\ result.Ok.description = call.arg.description.some
    /\ BuiltCommand =>
          /\ IsErr(result) <=> (IsNone(call.arg.name) \/ IsNone(call.arg.kind))
          /\ IsOk(result) =>
                /\ result.Ok.name = call.arg.name.some
                /\ result.Ok.kind = call.arg.kind.some
                /\ result.Ok.description =
                      IF IsSome(call.arg.description) THEN call.arg.description.some ELSE ""

\* A command was built from a builder with no description: its description is "".
C8_Witness ==
    /\ BuiltCommand
    /\ IsNone(call.arg.description)
    /\ IsOk(result)
    /\ result.Ok.description = ""

(***************************************************************************)
(* The rules of CommandOption build(), each with the error of its          *)
(* violation.                                                              *)
(***************************************************************************)
IsSetString(o) == IsSome(o) /\ IsString(o.some)
IsSetNonInt(o) == IsSome(o) /\ ~IsInt(o.some)
IsSetIntOutside(o, lo, hi) == IsSome(o) /\ IsInt(o.some) /\ o.some.Int \notin lo..hi

KindRule(b) == <<IsNone(b.kind), "'kind' must be set">>
NameRule(b) == <<IsNone(b.name), "'name' must be set">>
DescriptionRule(b) == <<IsNone(b.description), "'description' must be set">>
MinValueType(b) == <<IsSetString(b.min_value), "'min_value' cannot be a string">>
MaxValueType(b) == <<IsSetString(b.max_value), "'max_value' cannot be a string">>
MinLengthType(b) == <<IsSetNonInt(b.min_length), "'min_length' must be an integer">>
MaxLengthType(b) == <<IsSetNonInt(b.max_length), "'max_length' must be an integer">>
MinLengthRange(b) ==
    <<IsSetIntOutside(b.min_length, 0, 6000),
      IF IsSome(b.min_length) /\ IsInt(b.min_length.some) /\ b.min_length.some.Int < 0
      THEN "'min_length' must be at least 0"
      ELSE "'min_length' cannot be greater than 6000">>
MaxLengthRange(b) ==
    <<IsSetIntOutside(b.max_length, 1, 6000),
      IF IsSome(b.max_length) /\ IsInt(b.max_length.some) /\ b.max_length.some.Int < 1
      THEN "'max_length' must be at least 1"
      ELSE "'max_length' cannot be greater than 6000">>

\* Some rule of the sequence is violated.
Violates(rules) == \E i \in 1..Len(rules) : rules[i][1]

\* The error of the first violated rule of the sequence.
FirstViolated(rules) ==
    Err(rules[CHOOSE i \in 1..Len(rules) :
                 rules[i][1] /\ \A j \in 1..(i - 1) : ~rules[j][1]][2])

\* Presence checks, then all type checks, then all range checks.
RulesByPhase(b) ==
    <<KindRule(b), NameRule(b), DescriptionRule(b),
      MinValueType(b), MaxValueType(b), MinLengthType(b), MaxLengthType(b),
      MinLengthRange(b), MaxLengthRange(b)>>

\* Presence checks, then field by field: min_value, max_value, min_length
\* (type, range), max_length (type, range).
RulesByField(b) ==
    <<KindRule(b), NameRule(b), DescriptionRule(b),
      MinValueType(b), MaxValueType(b),
      MinLengthType(b), MinLengthRange(b),
      MaxLengthType(b), MaxLengthRange(b)>>

(***************************************************************************)
(* C9, as stated: CommandOption build() applies all presence checks, then  *)
(* all type checks, then all range checks, and returns the error of the    *)
(* first rule violated in that order: with min_length out of range and     *)
(* max_length of a non-Int type, the type error.                           *)
(***************************************************************************)
C9_Original ==
    (BuiltOption /\ Violates(RulesByPhase(call.arg)))
    => result = FirstViolated(RulesByPhase(call.arg))

(***************************************************************************)
(* C9, amended: CommandOption build() applies the presence checks, then    *)
(* the rules field by field (min_value not String, max_value not String,   *)
(* min_length Int and in range, max_length Int and in range) and returns   *)
(* the error of the first rule violated in that order: with min_length out *)
(* of range and max_length of a non-Int type, the range error of           *)
(* min_length.                                                             *)
(***************************************************************************)
C9_FirstViolatedRule ==
    (BuiltOption /\ Violates(RulesByField(call.arg)))
    => result = FirstViolated(RulesByField(call.arg))

\* An option was built with min_length above 6000 and a max_length that is no
\* Int: the error is the range error of min_length.
C9_Witness ==
    /\ BuiltOption
    /\ RequiredSet(call.arg)
    /\ IsSetIntOutside(call.arg.min_length, 0, 6000)
    /\ IsSetNonInt(call.arg.max_length)
    /\ result = Err("'min_length' cannot be greater than 6000")

(***************************************************************************)
(* C10: with kind, name and description set and no String in min_value or  *)
(* max_value, CommandOption build() succeeds exactly when min_length, if   *)
(* set, is an Int in 0..6000 and max_length, if set, is an Int in 1..6000. *)
(***************************************************************************)
C10_LengthRanges ==
    (/\ BuiltOption
     /\ RequiredSet(call.arg)
     /\ ~IsSetString(call.arg.min_value)
     /\ ~IsSetString(call.arg.max_value))
    => (IsOk(result) <=>
          /\ IsSome(call.arg.min_length) =>
                IsInt(call.arg.min_length.some) /\ call.arg.min_length.some.Int \in 0..6000
          /\ IsSome(call.arg.max_length) =>
                IsInt(call.arg.max_length.some) /\ call.arg.max_length.some.Int \in 1..6000)

\* An option was built with min_length 0 and max_length 6000.
C10_Witness ==
    /\ BuiltOption
    /\ IsOk(result)
    /\ result.Ok.min_length = Some(Int32(0))
    /\ result.Ok.max_length = Some(Int32(6000))

(***************************************************************************)
(* C11: TextInput build() fails when max_length is outside 1..4000 (0 and  *)
(* 4001 fail) and when min_length exceeds 4000; with custom_id, style and  *)
(* a label of at most 45 bytes set, it succeeds exactly when min_length,   *)
(* if set, is at most 4000 and max_length, if set, is in 1..4000 (so at 1  *)
(* and 4000, and for min_length 0 and 4000).                               *)
(***************************************************************************)
BuiltTextInput == call.op = "TextInputBuilder::build"

\* The fields of a TextInputBuilder other than the lengths pass build().
TextInputOthersValid(b) ==
    /\ IsSome(b.custom_id)
    /\ IsSome(b.style)
    /\ IsSome(b.label)
    /\ len(b.label.some) <= 45

C11_TextInputLengths ==
    BuiltTextInput =>
       /\ (IsSome(call.arg.max_length) /\ call.arg.max_length.some \notin 1..4000)
             => IsErr(result)
       /\ (IsSome(call.arg.min_length) /\ call.arg.min_length.some > 4000) => IsErr(result)
       /\ TextInputOthersValid(call.arg) =>
             (IsOk(result) <=>
                 /\ IsSome(call.arg.min_length) => call.arg.min_length.some \in 0..4000
                 /\ IsSome(call.arg.max_length) => call.arg.max_length.some \in 1..4000)

\* A text input was built with min_length 4000 and max_length 1.
C11_Witness ==
    /\ BuiltTextInput
    /\ call.arg.min_length = Some(4000)
    /\ call.arg.max_length = Some(1)
    /\ IsOk(result)

(***************************************************************************)
(* The values and the errors of CommandOption build() that concern the     *)
(* type of a ChoiceValue.                                                  *)
(***************************************************************************)
\* min_value or max_value holds a String, or min_length or max_length no Int.
IllTyped(o) ==
    \/ IsSetString(o.min_value)
    \/ IsSetString(o.max_value)
    \/ IsSetNonInt(o.min_length)
    \/ IsSetNonInt(o.max_length)

TypeErrors ==
    {"'min_value' cannot be a string", "'max_value' cannot be a string",
     "'min_length' must be an integer", "'max_length' must be an integer"}

(***************************************************************************)
(* C12, as stated: no built CommandOption holds a String in min_value or   *)
(* max_value or a non-Int in min_length or max_length, and build() fails   *)
(* with a type error whenever the builder was given such a value.          *)
(***************************************************************************)
C12_Original ==
    BuiltOption =>
       /\ IsOk(result) => ~IllTyped(result.Ok)
       /\ IllTyped(call.arg) => (IsErr(result) /\ result.Err \in TypeErrors)

(***************************************************************************)
(* C12, amended: no built CommandOption holds a String in min_value or     *)
(* max_value or a non-Int in min_length or max_length; build() fails       *)
(* whenever the builder was given such a value, and the error is a type    *)
(* error except when a demanded field is unset (its presence error) or     *)
(* when max_length alone is ill-typed and min_length is out of range (the  *)
(* range error of min_length).                                             *)
(***************************************************************************)
C12_NoIllTypedOption ==
    BuiltOption =>
       /\ IsOk(result) => ~IllTyped(result.Ok)
       /\ IllTyped(call.arg) =>
             /\ IsErr(result)
             /\ result.Err \in TypeErrors <=>
                   /\ RequiredSet(call.arg)
                   /\ \/ IsSetString(call.arg.min_value)
                      \/ IsSetString(call.arg.max_value)
                      \/ IsSetNonInt(call.arg.min_length)
                      \/ ~IsSetIntOutside(call.arg.min_length, 0, 6000)

\* An option was built with a max_length that is no Int and nothing else
\* wrong: build() failed with the type error of max_length.
C12_Witness ==
    /\ BuiltOption
    /\ RequiredSet(call.arg)
    /\ IsSetNonInt(call.arg.max_length)
    /\ IsNone(call.arg.min_length)
    /\ result = Err("'max_length' must be an integer")

(***************************************************************************)
(* What was encoded.                                                       *)
(***************************************************************************)
EncodedOption == call.op = "CommandOption::serialize"
EncodedCommand == call.op = "Command::serialize"
EncodedChoice == call.op = "Choice::serialize"

\* The keys of an encoded struct, and the values written under a key.
Keys(enc) == {enc.struct[i].key : i \in 1..Len(enc.struct)}
Written(enc, key) == {i \in 1..Len(enc.struct) : enc.struct[i].key = key}
ValueOf(enc, key) == enc.struct[CHOOSE i \in 1..Len(enc.struct) : enc.struct[i].key = key].value
HasNull(enc) == \E i \in 1..Len(enc.struct) : "null" \in DOMAIN enc.struct[i].value

(***************************************************************************)
(* C13: every Command, CommandOption and Choice that build() returned,     *)
(* its choices and nested options being built values too, encodes without  *)
(* error.                                                                  *)
(***************************************************************************)
C13_BuiltValuesEncode ==
    (EncodedOption \/ EncodedCommand \/ EncodedChoice) => IsOk(result)

\* A command was encoded whose option holds a nested option and whose nested
\* option holds a choice.
C13_Witness ==
    /\ EncodedCommand
    /\ IsOk(result)
    /\ IsSome(call.arg.options)
    /\ \E i \in 1..Len(call.arg.options.some) :
          /\ IsSome(call.arg.options.some[i].options)
          /\ \E j \in 1..Len(call.arg.options.some[i].options.some) :
                IsSome(call.arg.options.some[i].options.some[j].choices)

(***************************************************************************)
(* C14: the encoding of a built CommandOption holds the keys type, name    *)
(* and description, holds each of required, choices, options, min_value,   *)
(* max_value, min_length, max_length, autocomplete exactly when it was set *)
(* on the builder, and holds no null.                                      *)
(***************************************************************************)
C14_OptionKeys ==
    EncodedOption =>
       /\ IsOk(result)
       /\ {"type", "name", "description"} \subseteq Keys(result.Ok)
       /\ \A f \in CommandOptionOptional : f \in Keys(result.Ok) <=> IsSome(call.from[f])
       /\ Keys(result.Ok) \subseteq {"type", "name", "description"} \cup CommandOptionOptional
       /\ ~HasNull(result.Ok)

\* An option with choices and min_value set and nothing else optional was
\* encoded.
C14_Witness ==
    /\ EncodedOption
    /\ IsOk(result)
    /\ Keys(result.Ok) = {"type", "name", "description", "choices", "min_value"}

(***************************************************************************)
(* C15: the encoding of a built Command holds name, type (the number 1..4  *)
(* of its kind) and description, and holds options exactly when an option  *)
(* was appended or a list was set on the builder: never an empty list for  *)
(* a builder that was given none.                                          *)
(***************************************************************************)
C15_CommandKeys ==
    EncodedCommand =>
       /\ IsOk(result)
       /\ {"name", "type", "description"} \subseteq Keys(result.Ok)
       /\ ValueOf(result.Ok, "type") = JInt(call.from.kind.some)
       /\ call.from.kind.some \in 1..4
       /\ "options" \in Keys(result.Ok) <=> IsSome(call.from.options)
       /\ Keys(result.Ok) \subseteq {"name", "type", "description", "options"}

\* A command whose builder was given no option was encoded: no options key.
C15_Witness ==
    /\ EncodedCommand
    /\ IsNone(call.from.options)
    /\ IsOk(result)
    /\ Keys(result.Ok) = {"name", "type", "description"}

(***************************************************************************)
(* C16: the command "ping" of kind ChatInput, built with no description    *)
(* and one required String option "msg" with min_length 0 and max_length   *)
(* 100, encodes to exactly the keys name = "ping", type = 1, description = *)
(* "" and options = one entry with exactly the keys type = 3, name =       *)
(* "msg", description, required = true, min_length = 0, max_length = 100.  *)
(***************************************************************************)
\* The option "msg" of the scenario.
IsMsgOption(o) ==
    /\ o.kind = 3
    /\ o.name = "msg"
    /\ o.required = Some(TRUE)
    /\ o.min_length = Some(Int32(0))
    /\ o.max_length = Some(Int32(100))
    /\ \A f \in {"choices", "options", "min_value", "max_value", "autocomplete"} : IsNone(o[f])

\* The command "ping" of the scenario was encoded.
PingEncoded ==
    /\ EncodedCommand
    /\ call.from.name = Some("ping")
    /\ call.from.kind = Some(1)
    /\ IsNone(call.from.description)
    /\ IsSome(call.from.options)
    /\ Len(call.from.options.some) = 1
    /\ IsMsgOption(call.from.options.some[1])

\* Each key of the set is written once in the encoded struct.
WrittenOnce(enc, keys) == \A k \in keys : Cardinality(Written(enc, k)) = 1

C16_PingPayload ==
    PingEncoded =>
       /\ IsOk(result)
       /\ Keys(result.Ok) = {"name", "type", "description", "options"}
       /\ WrittenOnce(result.Ok, Keys(result.Ok))
       /\ ValueOf(result.Ok, "name") = JStr("ping")
       /\ ValueOf(result.Ok, "type") = JInt(1)
       /\ ValueOf(result.Ok, "description") = JStr("")
       /\ "arr" \in DOMAIN ValueOf(result.Ok, "options")
       /\ Len(ValueOf(result.Ok, "options").arr) = 1
       /\ LET entry == ValueOf(result.Ok, "options").arr[1]
          IN /\ Keys(entry) =
                   {"type", "name", "description", "required", "min_length", "max_length"}
             /\ WrittenOnce(entry, Keys(entry))
             /\ ValueOf(entry, "type") = JInt(3)
             /\ ValueOf(entry, "name") = JStr("msg")
             /\ ValueOf(entry, "description") = JStr(call.from.options.some[1].description)
             /\ ValueOf(entry, "required") = JBool(TRUE)
             /\ ValueOf(entry, "min_length") = JInt(0)
             /\ ValueOf(entry, "max_length") = JInt(100)

\* The command "ping" of the scenario was encoded without error.
C16_Witness == PingEncoded /\ IsOk(result)

(***************************************************************************)
(* C17: a choice with a String value is built exactly when the value has   *)
(* at most 100 characters (101 is refused, 100 is accepted), and a choice  *)
(* with an Int or a Float value is never refused for its length.           *)
(***************************************************************************)
C17_CharacterCap ==
    (/\ call.op = "CommandOptionChoiceBuilder::build"
     /\ IsSome(call.arg.name)
     /\ IsSome(call.arg.value))
    => IF IsString(call.arg.value.some)
       THEN IsOk(result) <=> Len(call.arg.value.some.String) <= 100
       ELSE IsOk(result)

(***************************************************************************)
(* What was encoded on the response side.                                  *)
(***************************************************************************)
EncodedComponent == call.op = "MessageComponent::serialize"
EncodedSelectMenuOption == call.op = "SelectMenuOption::serialize"
EncodedMessage == call.op = "Message::serialize"
EncodedResponse == call.op = "InteractionResponse::serialize"

\* The discriminants of the MessageComponent variants.
ComponentType ==
    [ActionRow |-> 1, Button |-> 2, StringSelect |-> 3, TextInput |-> 4, UserSelect |-> 5,
     RoleSelect |-> 6, MentionableSelect |-> 7, ChannelSelect |-> 8]

(***************************************************************************)
(* C18: each MessageComponent variant encodes the type of the table        *)
(* ActionRow=1, Button=2, StringSelect=3, TextInput=4, UserSelect=5,       *)
(* RoleSelect=6, MentionableSelect=7, ChannelSelect=8.                     *)
(***************************************************************************)
C18_ComponentDiscriminants ==
    (EncodedComponent /\ IsOk(result))
    => ValueOf(result.Ok, "type") = JInt(ComponentType[VariantOf(call.arg)])

(***************************************************************************)
(* C19: in the encoding of a MessageComponent, of a select-menu option and *)
(* of a Message, the key of an optional field that is absent does not      *)
(* appear, and nothing is written as null.                                 *)
(***************************************************************************)
\* The optional fields of the value that was encoded.
OptionalFields ==
    IF EncodedMessage THEN {"tts", "content", "flags", "components"}
    ELSE IF EncodedSelectMenuOption THEN {"description", "default"}
    ELSE IF "ActionRow" \in DOMAIN call.arg THEN {}
    ELSE IF "Button" \in DOMAIN call.arg THEN {"label", "custom_id", "url", "disabled"}
    ELSE IF "TextInput" \in DOMAIN call.arg
    THEN {"min_length", "max_length", "required", "value", "placeholder"}
    ELSE {"options", "placeholder", "disabled"}

\* The value that was encoded: a component is what its variant holds.
EncodedValue == IF EncodedComponent THEN call.arg[VariantOf(call.arg)] ELSE call.arg

C19_AbsentOmitted ==
    ((EncodedComponent \/ EncodedSelectMenuOption \/ EncodedMessage) /\ IsOk(result))
    => /\ \A f \in OptionalFields : IsNone(EncodedValue[f]) => f \notin Keys(result.Ok)
       /\ ~HasNull(result.Ok)

(***************************************************************************)
(* C20: each InteractionResponse variant encodes the type Pong=1,          *)
(* Message=4, DeferResponse=5, DeferredUpdateMessage=6, UpdateMessage=7,   *)
(* Autocomplete=8, Modal=9; Pong and DeferResponse encode no data key and  *)
(* every other variant encodes a data key that holds its payload.          *)
(***************************************************************************)
ResponseType ==
    [Pong |-> 1, Message |-> 4, DeferResponse |-> 5, DeferredUpdateMessage |-> 6,
     UpdateMessage |-> 7, Autocomplete |-> 8, Modal |-> 9]

\* The encoding of the payload the response holds.
EncodedPayload(response) ==
    IF VariantOf(response) \in {"Autocomplete", "Modal"}
    THEN [payload |-> response[VariantOf(response)]]
    ELSE MessageSerialize(response[VariantOf(response)]).Ok

C20_ResponseDiscriminants ==
    EncodedResponse =>
       /\ IsOk(result)
       /\ Written(result.Ok, "type") = {1}
       /\ ValueOf(result.Ok, "type") = JInt(ResponseType[VariantOf(call.arg)])
       /\ ValueOf(result.Ok, "type").int \notin {2, 3}
       /\ IF VariantOf(call.arg) \in {"Pong", "DeferResponse"}
          THEN Keys(result.Ok) = {"type"}
          ELSE /\ Keys(result.Ok) = {"type", "data"}
               /\ Written(result.Ok, "data") = {2}
               /\ ValueOf(result.Ok, "data") = EncodedPayload(call.arg)

\* A DeferResponse was encoded, and a Message response with content.
C20_Witness ==
    /\ EncodedResponse
    /\ IsOk(result)
    /\ \/ "DeferResponse" \in DOMAIN call.arg /\ Keys(result.Ok) = {"type"}
       \/ "UpdateMessage" \in DOMAIN call.arg /\ IsSome(call.arg.UpdateMessage.content)

(***************************************************************************)
(* C21: the flags of a Message encode as one integer below 2^32, the       *)
(* bitwise or of the bits of the flags that are set, where CROSSPOSTED is   *)
(* bit 0, IS_CROSSPOST 1, SUPPRESS_EMBEDS 2, SOURCE_MESSAGE_DELETED 3,     *)
(* URGENT 4, HAS_THREAD 5, EPHEMERAL 6, LOADING 7,                         *)
(* FAILED_TO_MENTION_SOME_ROLES_IN_THREAD 8, SUPPRESS_NOTIFICATIONS 12 and *)
(* IS_VOICE_MESSAGE 13.                                                    *)
(***************************************************************************)
\* The bit of each flag, as the table states it.
FlagBitTable ==
    [CROSSPOSTED |-> 0, IS_CROSSPOST |-> 1, SUPPRESS_EMBEDS |-> 2,
     SOURCE_MESSAGE_DELETED |-> 3, URGENT |-> 4, HAS_THREAD |-> 5, EPHEMERAL |-> 6,
     LOADING |-> 7, FAILED_TO_MENTION_SOME_ROLES_IN_THREAD |-> 8,
     SUPPRESS_NOTIFICATIONS |-> 12, IS_VOICE_MESSAGE |-> 13]

\* The bitwise or of the bits of the table for the names: the bits are
\* distinct, so it is their sum.
RECURSIVE OrOfTable(_)
OrOfTable(names) ==
    IF names = {} THEN 0
    ELSE LET n == CHOOSE x \in names : TRUE
         IN (2 ^ FlagBitTable[n]) + OrOfTable(names \ {n})

\* The names of the flags that flags.contains().
Contained(flags) == {n \in MessageFlagNames : MessageFlag(n) \in flags}

\* A message with flags was encoded.
EncodedFlags == EncodedMessage /\ IsSome(call.arg.flags)

C21_FlagBits ==
    EncodedFlags =>
       /\ IsOk(result)
       /\ WrittenOnce(result.Ok, {"flags"})
       /\ ValueOf(result.Ok, "flags") = JInt(OrOfTable(Contained(call.arg.flags.some)))
       /\ ValueOf(result.Ok, "flags").int >= 0
       /\ ValueOf(result.Ok, "flags").int \div LimbBase < LimbBase

\* A message with SUPPRESS_NOTIFICATIONS and two more flags was encoded.
C21_Witness ==
    /\ EncodedFlags
    /\ IsOk(result)
    /\ Cardinality(call.arg.flags.some) = 3
    /\ ValueOf(result.Ok, "flags") = JInt(4096 + 128 + 64)

(***************************************************************************)
(* C22: option(name), on the top-level command payload and on a node,      *)
(* returns the first child in order whose name is exactly `name` (the      *)
(* first of two children that share the name), and nothing when there is   *)
(* no child list or no child has the name.                                 *)
(***************************************************************************)
\* option(name) was called.
LookedUp == call.op \in {"CommandData::option", "CommandInteractionData::option"}

\* The positions of the children of the node that have the name.
Matches(self, name) ==
    IF IsNone(self.options) THEN {}
    ELSE {i \in 1..Len(self.options.some) : self.options.some[i].name = name}

C22_FirstMatch ==
    LookedUp =>
       IF Matches(call.self, call.arg) = {}
       THEN result = None
       ELSE \E i \in Matches(call.self, call.arg) :
               /\ \A k \in Matches(call.self, call.arg) : i <= k
               /\ result = Some(call.self.options.some[i])

\* On a node returned by a lookup, whose two children share the name "a" and
\* differ, "a" was looked up and the first was returned.
C22_Witness ==
    /\ call.op = "CommandInteractionData::option"
    /\ call.self.name = "g"
    /\ call.arg = "a"
    /\ Matches(call.self, "a") = {1, 2}
    /\ call.self.options.some[1] # call.self.options.some[2]
    /\ result = Some(call.self.options.some[1])

(***************************************************************************)
(* C23: a tree node decodes exactly when it is an object whose `name` is a *)
(* string, whose `type` is an integer in 1..11, whose `value`, if not      *)
(* absent or null, is a scalar, whose `options`, if not absent or null, is *)
(* a list of elements that decode as nodes, and whose `focused`, if not    *)
(* absent or null, is a boolean, or an array of exactly five elements that *)
(* hold name, type, value, options and focused in this order under the     *)
(* same conditions; the children are decoded in the order of the list.     *)
(***************************************************************************)
\* A node was decoded.
DecodedNode == call.op = "CommandInteractionData::deserialize"

\* The five fields of a node given as an object or as an array, null for an
\* absent key.
FieldsOf(j) ==
    IF "obj" \in DOMAIN j
    THEN [k \in {"name", "type", "value", "options", "focused"} |->
             IF k \in DOMAIN j.obj THEN j.obj[k] ELSE JNull]
    ELSE [name |-> j.arr[1], type |-> j.arr[2], value |-> j.arr[3], options |-> j.arr[4],
          focused |-> j.arr[5]]

RECURSIVE ShapedAsNode(_)
ShapedAsNode(j) ==
    /\ \/ /\ "obj" \in DOMAIN j
          /\ {"name", "type"} \subseteq DOMAIN j.obj
       \/ /\ "arr" \in DOMAIN j
          /\ Len(j.arr) = 5
    /\ LET f == FieldsOf(j)
       IN /\ IsStrJson(f.name)
          /\ IsNatIn(f.type, 1..11)
          /\ "null" \in DOMAIN f.value \/ IsScalarJson(f.value)
          /\ \/ "null" \in DOMAIN f.options
             \/ /\ "arr" \in DOMAIN f.options
                /\ \A i \in 1..Len(f.options.arr) : ShapedAsNode(f.options.arr[i])
          /\ "null" \in DOMAIN f.focused \/ IsBoolJson(f.focused)

\* The statement with objects alone: a node decodes exactly when it is an
\* object of the shape.
C23_Original == DecodedNode => (IsOk(result) <=> IsNode(call.arg))

C23_NodeDecode ==
    DecodedNode =>
       /\ IsOk(result) <=> ShapedAsNode(call.arg)
       /\ IsOk(result) =>
             LET f == FieldsOf(call.arg)
             IN /\ result.Ok.name = f.name.str
                /\ result.Ok.kind = f.type.u64[4]
                /\ IsNone(result.Ok.options) <=> "null" \in DOMAIN f.options
                /\ IsSome(result.Ok.options) =>
                      /\ Len(result.Ok.options.some) = Len(f.options.arr)
                      /\ \A i \in 1..Len(f.options.arr) :
                            /\ result.Ok.options.some[i].name = FieldsOf(f.options.arr[i]).name.str
                            /\ result.Ok.options.some[i].kind =
                                   FieldsOf(f.options.arr[i]).type.u64[4]

\* A node of kind 3 that holds both a value and one child, itself given as an
\* array, was decoded.
C23_Witness ==
    /\ DecodedNode
    /\ IsOk(result)
    /\ result.Ok.kind = 3
    /\ IsSome(result.Ok.value)
    /\ IsSome(result.Ok.options)
    /\ Len(result.Ok.options.some) = 1
    /\ "arr" \in DOMAIN call.arg.obj.options.arr[1]

(***************************************************************************)
(* C24: build() of every builder returns a built value or an error value   *)
(* for every combination of set and unset fields; it never panics, a       *)
(* TextInput built without label included.                                 *)
(***************************************************************************)
\* build() of one of the builders was called.
BuildCalled ==
    call.op \in {"CommandBuilder::build", "CommandOptionBuilder::build",
                 "CommandOptionChoiceBuilder::build", "ButtonComponentBuilder::build",
                 "SelectMenuBuilder::build", "SelectMenuOptionBuilder::build",
                 "TextInputBuilder::build"}

C24_NeverPanics == BuildCalled => (IsOk(result) \/ IsErr(result))

(***************************************************************************)
(* C25: the error of a failed build() names a field whose rule the builder *)
(* violates: a required field that is not set, or a field out of its       *)
(* range; a Choice without value reports `value`, a TextInput whose        *)
(* max_length is out of range reports `max_length`.                        *)
(***************************************************************************)
\* The field an error message names between its quotes.
ErrorField ==
    ("'name' must be set" :> "name")
    @@ ("'value' cannot be longer than 100 chars" :> "value")
    @@ ("'custom_id' must be set" :> "custom_id")
    @@ ("'style' must be set" :> "style")
    @@ ("'label' cannot be longet than 45 chars" :> "label")
    @@ ("'min_length' must be between 0 and 4000 chars" :> "min_length")
    @@ ("'min_length' must be between 1 and 4000 chars" :> "min_length")

\* The fields of the builder b whose rule is violated.
ViolatedFields(b) ==
    IF b.type = "CommandOptionChoiceBuilder"
    THEN {f \in {"name", "value"} : IsNone(b[f])}
         \cup {f \in {"value"} :
                  /\ IsSome(b.value)
                  /\ IsString(b.value.some)
                  /\ len(b.value.some.String) > 100}
    ELSE {f \in {"custom_id", "style"} : IsNone(b[f])}
         \cup {f \in {"label"} : IsSome(b.label) /\ len(b.label.some) > 45}
         \cup {f \in {"min_length"} : IsSome(b.min_length) /\ b.min_length.some > 4000}
         \cup {f \in {"max_length"} :
                  IsSome(b.max_length) /\ (b.max_length.some < 1 \/ b.max_length.some > 4000)}

C25_ErrorNamesField ==
    (/\ call.op \in {"CommandOptionChoiceBuilder::build", "TextInputBuilder::build"}
     /\ IsErr(result))
    => /\ result.Err \in DOMAIN ErrorField
       /\ ErrorField[result.Err] \in ViolatedFields(call.arg)

(***************************************************************************)
(* C26: an Int value of a choice, of min_value and of max_value holds any  *)
(* 64-bit signed integer: the Int made of the integer x encodes as x.      *)
(***************************************************************************)
\* The i64 of the integer n that was encoded, as limbs.
I64Of(n) ==
    IF n >= 0 THEN <<0, 0, n \div LimbBase, n % LimbBase>>
    ELSE <<LimbBase - 1, LimbBase - 1, (n \div LimbBase) + LimbBase, n % LimbBase>>

\* The Int value given under the key encodes as each integer it was made of.
EncodesAs(given, key) ==
    (IsSome(given) /\ IsInt(given.some)) =>
        /\ IsOk(result)
        /\ key \in Keys(result.Ok)
        /\ \A x \in I64IntInputs :
              given.some = ChoiceValueInt(x) => I64Of(ValueOf(result.Ok, key).int) = x

C26_Int64 ==
    /\ EncodedChoice => EncodesAs(call.from.value, "value")
    /\ EncodedOption =>
          /\ EncodesAs(call.from.min_value, "min_value")
          /\ EncodesAs(call.from.max_value, "max_value")

(***************************************************************************)
(* C27: the encoded Button holds each key at most once and every set field *)
(* under its own name: style always, and label, custom_id, url and         *)
(* disabled exactly when set, a set disabled under the key disabled.       *)
(***************************************************************************)
\* A Button was encoded as a MessageComponent.
EncodedButton == EncodedComponent /\ "Button" \in DOMAIN call.arg /\ IsOk(result)

C27_ButtonKeys ==
    EncodedButton =>
       LET b == call.arg.Button
       IN /\ \A k \in Keys(result.Ok) : Cardinality(Written(result.Ok, k)) = 1
          /\ "style" \in Keys(result.Ok)
          /\ ValueOf(result.Ok, "style") = JInt(b.style)
          /\ \A f \in {"label", "custom_id", "url", "disabled"} :
                IsSome(b[f]) <=> f \in Keys(result.Ok)
          /\ \A f \in {"label", "custom_id", "url"} :
                IsSome(b[f]) => ValueOf(result.Ok, f) = JStr(b[f].some)
          /\ IsSome(b.disabled) => ValueOf(result.Ok, "disabled") = JBool(b.disabled.some)

(***************************************************************************)
(* C28: a TextInput encoded as a MessageComponent holds every field its    *)
(* builder demands: type = 4, custom_id, label, and the style that was set *)
(* on the builder, 1 for Short and 2 for Paragraph.                        *)
(***************************************************************************)
\* A TextInput was encoded as a MessageComponent.
EncodedTextInput == EncodedComponent /\ "TextInput" \in DOMAIN call.arg /\ IsOk(result)

C28_TextInputRequired ==
    EncodedTextInput =>
       /\ {"type", "custom_id", "label", "style"} \subseteq Keys(result.Ok)
       /\ ValueOf(result.Ok, "type") = JInt(4)
       /\ ValueOf(result.Ok, "custom_id") = JStr(call.from.custom_id.some)
       /\ ValueOf(result.Ok, "label") = JStr(call.from.label.some)
       /\ ValueOf(result.Ok, "style") = JInt(call.from.style.some)

(***************************************************************************)
(* C29: on the builders of Command, CommandOption, SelectMenu, Message and *)
(* ActionRow, each single-item call (option, choice, component) puts its   *)
(* item at the end of the list the builder holds, each whole-list call     *)
(* (options, choices, components) replaces the list, items appended before *)
(* included, and the last call of a scalar setter wins; build() keeps the  *)
(* list and the encoding holds its items in this order.                    *)
(***************************************************************************)
\* The list field of a builder that a single-item call or a whole-list call
\* of the items acts on.
ListFields ==
    {[type |-> "CommandBuilder", field |-> "options", items |-> ItemOptions],
     [type |-> "CommandOptionBuilder", field |-> "options", items |-> ItemOptions],
     [type |-> "CommandOptionBuilder", field |-> "choices", items |-> ItemChoices],
     [type |-> "SelectMenuBuilder", field |-> "options", items |-> ItemSelectMenuOptions],
     [type |-> "MessageBuilder", field |-> "components", items |-> ItemComponents]}

\* The single-item call of the list field with the item.
SingleItemCall(l, item) ==
    CASE l.type = "CommandBuilder" -> CommandBuilder_option(item)
      [] l.type = "CommandOptionBuilder" -> CommandOptionBuilder_push(l.field, item)
      [] l.type = "SelectMenuBuilder" -> SelectMenuBuilder_option(item)
      [] l.type = "MessageBuilder" -> MessageBuilder_component(item)

\* The whole-list call of the list field with the list.
WholeListCall(l, list) ==
    CASE l.type = "CommandBuilder" -> CommandBuilder_set(l.field, list)
      [] l.type = "CommandOptionBuilder" -> CommandOptionBuilder_setOptional(l.field, list)
      [] l.type = "SelectMenuBuilder" -> SelectMenuBuilder_set(l.field, list)
      [] l.type = "MessageBuilder" -> MessageBuilder_set(l.field, list)

\* The other fields of the builder are left as they are.
OthersKept(field) == \A f \in DOMAIN builder \ {field} : builder'[f] = builder[f]

\* What a step of a setter does to the builder.
SetterStep ==
    /\ \A l \in ListFields :
          /\ \A item \in l.items :
                SingleItemCall(l, item)
                => /\ builder'[l.field] = Some(Append(ListOf(builder[l.field]), item))
                   /\ OthersKept(l.field)
          /\ \A list \in WholeLists(l.items) :
                WholeListCall(l, list)
                => /\ builder'[l.field] = Some(list)
                   /\ OthersKept(l.field)
    /\ \A item \in ItemComponents :
          ActionRowBuilder_component(item)
          => builder'.components = Append(builder.components, item)
    /\ \A list \in WholeLists(ItemComponents) :
          ActionRowBuilder_set("components", list) => builder'.components = list
    /\ \A x \in {"x", "y"} :
          /\ CommandBuilder_set("name", x)
             => builder'.name = Some(x) /\ OthersKept("name")
          /\ CommandOptionBuilder_set("description", x)
             => builder'.description = Some(x) /\ OthersKept("description")
    /\ \A x \in {"p", "q"} :
          SelectMenuBuilder_set("placeholder", x)
          => builder'.placeholder = Some(x) /\ OthersKept("placeholder")
    /\ \A x \in {"hi", "ho"} :
          MessageBuilder_set("content", x)
          => builder'.content = Some(x) /\ OthersKept("content")

\* The elements of the array written under the key are the encodings of the
\* items of the list, in its order.
InOrder(key, list, encodings) ==
    /\ key \in Keys(result.Ok)
    /\ "arr" \in DOMAIN ValueOf(result.Ok, key)
    /\ Len(ValueOf(result.Ok, key).arr) = Len(list)
    /\ \A i \in 1..Len(list) : Ok(ValueOf(result.Ok, key).arr[i]) = encodings[i]

\* build() keeps the lists of the builder, and the encoding holds the items
\* of each list in its order.
ListKept ==
    /\ (BuildCalled /\ IsOk(result)) =>
          \A f \in {"choices", "options"} \cap DOMAIN call.arg : result.Ok[f] = call.arg[f]
    /\ call.op = "MessageBuilder::build" => result.returned.components = call.arg.components
    /\ call.op = "ActionRowBuilder::build" => result.returned.components = call.arg.components
    /\ (EncodedCommand /\ IsSome(call.from.options)) =>
          /\ IsOk(result)
          /\ InOrder("options", call.from.options.some,
                     [i \in 1..Len(call.from.options.some) |->
                         CommandOptionSerialize(call.from.options.some[i])])
    /\ (EncodedOption /\ IsSome(call.from.options)) =>
          /\ IsOk(result)
          /\ InOrder("options", call.from.options.some,
                     [i \in 1..Len(call.from.options.some) |->
                         CommandOptionSerialize(call.from.options.some[i])])
    /\ (EncodedOption /\ IsSome(call.from.choices)) =>
          /\ IsOk(result)
          /\ InOrder("choices", call.from.choices.some,
                     [i \in 1..Len(call.from.choices.some) |->
                         ChoiceSerialize(call.from.choices.some[i])])
    /\ (EncodedMessage /\ IsSome(call.from.components)) =>
          /\ IsOk(result)
          /\ InOrder("components", call.from.components.some,
                     [i \in 1..Len(call.from.components.some) |->
                         MessageComponentSerialize(call.from.components.some[i])])
    /\ (EncodedComponent /\ "ActionRow" \in DOMAIN call.arg) =>
          /\ IsOk(result)
          /\ InOrder("components", call.from.components,
                     [i \in 1..Len(call.from.components) |->
                         MessageComponentSerialize(call.from.components[i])])
    /\ (EncodedComponent /\ "StringSelect" \in DOMAIN call.arg /\ IsSome(call.from.options)) =>
          /\ IsOk(result)
          /\ InOrder("options", call.from.options.some,
                     [i \in 1..Len(call.from.options.some) |->
                         SelectMenuOptionSerialize(call.from.options.some[i])])

C29_ListSemantics == [][SetterStep]_vars /\ []ListKept

\* A message that holds three components, the first two different, was
\* encoded.
C29_Witness ==
    /\ EncodedMessage
    /\ IsOk(result)
    /\ IsSome(call.from.components)
    /\ Len(call.from.components.some) = 3
    /\ call.from.components.some[1] # call.from.components.some[2]
    /\ Len(ValueOf(result.Ok, "components").arr) = 3

(***************************************************************************)
(* C30: CommandOption build() validates each field by itself: it succeeds  *)
(* exactly when no rule of a single field is violated, whatever the kind   *)
(* (lengths, numeric bounds, choices and nested options are accepted on    *)
(* every kind) and whatever the order of min_length and max_length or of   *)
(* min_value and max_value: with min_length greater than max_length, each  *)
(* in its range, it succeeds.                                              *)
(***************************************************************************)
\* The lengths are Ints in their ranges, the first greater than the second.
LengthsCrossed(b) ==
    /\ IsSome(b.min_length) /\ IsInt(b.min_length.some)
    /\ IsSome(b.max_length) /\ IsInt(b.max_length.some)
    /\ b.min_length.some.Int \in 0..6000
    /\ b.max_length.some.Int \in 1..6000
    /\ b.min_length.some.Int > b.max_length.some.Int

C30_FieldIndependence ==
    BuiltOption =>
       /\ IsOk(result) <=> ~Violates(RulesByField(call.arg))
       /\ IsSome(call.arg.kind) =>
             \A k \in CommandOptionKind :
                IsOk(CommandOptionBuilderBuild([call.arg EXCEPT !.kind = Some(k)]))
                <=> IsOk(result)
       /\ (/\ RequiredSet(call.arg)
           /\ LengthsCrossed(call.arg)
           /\ ~IsSetString(call.arg.min_value)
           /\ ~IsSetString(call.arg.max_value)) => IsOk(result)

\* An Attachment option was built with min_length greater than max_length.
C30_Witness ==
    /\ BuiltOption
    /\ call.arg.kind = Some(11)
    /\ LengthsCrossed(call.arg)
    /\ IsOk(result)

====
